---- MODULE Spec2Model ----
(***************************************************************************)
(* A model of the document store (DocDB, a wrapper of a TaffyDB table) and *)
(* of the differential regeneration engine (RegenerateDocData) of          *)
(* tjsdoc-runtime-common, with the generation pipeline (GenerateDocData)   *)
(* that fills the stores.                                                  *)
(*                                                                         *)
(* Strings that the code compares, sorts or matches with a regular         *)
(* expression (name, longname, memberof) are sequences of one-character    *)
(* strings; file paths are only compared for equality and are plain        *)
(* strings.                                                                *)
(***************************************************************************)
EXTENDS Integers, Sequences, FiniteSets, TLC

VARIABLES
    main,        \* records of the main store's TaffyDB table, in table order
    mainID,      \* the main store's _docID
    scratch,     \* records of the scratch store of the running regeneration
    scratchID,   \* the scratch store's _docID
    cfg,         \* the TJSDocConfig the main store read in onPluginLoad
    pc,          \* position of the running call: "idle" between calls, "done"
                 \* when the call has ended and its caller looks at the outcome
    opt,         \* options of the running call
    genDB,       \* generateOptions.docDB of the running regeneration call
    todo,        \* dependent paths still to generate in the running call
    filePaths,   \* the filePaths array of the running regeneration call
    out,         \* outcome of the call that has ended
    pre,         \* the main store's records when the running call started
    pass,        \* number of generation passes started so far
    issued,      \* ids the main store has assigned since it was constructed
    issuedSince, \* ids the main store has assigned since its last reset
    hooks,       \* onHandleDocObject invocations during the running call
    facFile,     \* file whose AST the doc factory holds since its last reset
    facDB,       \* store the doc factory inserts into since its last reset
    testFile,    \* file whose AST the test doc factory holds since its last reset
    testDB,      \* store the test doc factory inserts into since its last reset
    invalid,     \* entries queued with the invalid-code logger during the running call
    lintResults, \* _results of the lint logger
    invalidCode, \* _invalidCode of the invalid-code logger
    logged,      \* what the running call has triggered on the eventbus log
    query,       \* arguments of the query that has ended; of a generation
                 \* call that has ended, what the parser and the doc factory did
    found,       \* result of the query or generation call that has ended
    mode         \* _mode of the main store

vars == <<main, mainID, scratch, scratchID, cfg, pc, opt, genDB, todo, filePaths,
          out, pre, pass, issued, issuedSince, hooks, facFile, facDB, testFile, testDB,
          invalid, query, found, mode, lintResults, invalidCode, logged>>

-----------------------------------------------------------------------------
(* Bounds of the model. *)

\* generation passes (one per generated file) in one behaviour
MaxPass == 3

Files == {"A", "B"}

\* The source files of the project with a chain of three files.
Sources == Files \cup {"C"}

-----------------------------------------------------------------------------
(* Strings. *)

\* The characters in use, in the order of their UTF-16 code units, which is
\* the order JavaScript's < and > compare strings by.
CharOrder == <<"#", "*", ".", "A", "B", "C", "F", "G", "P", "b", "c", "~">>

CharRank(c) == CHOOSE i \in 1..Len(CharOrder) : CharOrder[i] = c

RECURSIVE StrLess(_, _)
StrLess(a, b) ==
    IF b = <<>> THEN FALSE
    ELSE IF a = <<>> THEN TRUE
    ELSE IF Head(a) = Head(b) THEN StrLess(Tail(a), Tail(b))
    ELSE CharRank(Head(a)) < CharRank(Head(b))

-----------------------------------------------------------------------------
(* TaffyDB. *)

\* data.order('name asec'): Array.prototype.sort with a comparator on name;
\* records with equal names keep their table order.
RECURSIVE InsertByName(_, _)
InsertByName(r, s) ==
    IF s = <<>> THEN <<r>>
    ELSE IF StrLess(r.name, Head(s).name) THEN <<r>> \o s
    ELSE <<Head(s)>> \o InsertByName(r, Tail(s))

RECURSIVE OrderByName(_)
OrderByName(s) ==
    IF s = <<>> THEN <<>>
    ELSE InsertByName(s[Len(s)], OrderByName(SubSeq(s, 1, Len(s) - 1)))

\* db().distinct('filePath'): the values of the column, first occurrences in
\* table order.
RECURSIVE Distinct(_)
DistinctAdd(ra, v) == IF \E i \in 1..Len(ra) : ra[i] = v THEN ra ELSE Append(ra, v)
Distinct(db) ==
    IF db = <<>> THEN <<>>
    ELSE DistinctAdd(Distinct(SubSeq(db, 1, Len(db) - 1)), db[Len(db)].filePath)

Range(s) == {s[i] : i \in 1..Len(s)}

-----------------------------------------------------------------------------
(* Doc objects. *)

\* A DocObject as the doc factory hands it to insertStaticDoc: node is TRUE
\* while the record carries its AST node, content is TRUE while it carries
\* file content, gen is the generation pass that produced it.
NewDoc(id, f, kind, name, longname, memberof, gen) ==
    [id |-> id, filePath |-> f, kind |-> kind, name |-> name,
     longname |-> longname, memberof |-> memberof, gen |-> gen,
     deps |-> <<>>, chains |-> <<>>, node |-> TRUE,
     content |-> (kind = "ModuleFile"),
     access |-> "public", builtinVirtual |-> FALSE, interface |-> FALSE,
     category |-> kind, undocument |-> FALSE]

-----------------------------------------------------------------------------
(* The stores. A world is the part of the state that a generation call can *)
(* change; the operators below take a world and return the world after.    *)

World ==
    [main |-> main, mainID |-> mainID, scratch |-> scratch, scratchID |-> scratchID,
     hooks |-> hooks, issued |-> issued, issuedSince |-> issuedSince,
     facFile |-> facFile, facDB |-> facDB, invalid |-> invalid,
     testFile |-> testFile, testDB |-> testDB,
     raised |-> "none", returned |-> "undefined", parsed |-> FALSE]

\* The stores are "main" (the runtime's plugin instance), "scratch" (the
\* regenDocDB of the running regeneration), "temp" (a DocDB that a generation
\* call creates for itself and that nobody else sees) and "old" (the scratch
\* store of a finished regeneration, unreachable but for the doc factory).
Docs(w, s) == IF s = "main" THEN w.main ELSE IF s = "scratch" THEN w.scratch ELSE <<>>

PutDocs(w, s, d) ==
    IF s = "main" THEN [w EXCEPT !.main = d]
    ELSE IF s = "scratch" THEN [w EXCEPT !.scratch = d]
    ELSE w

\* this._config is set in onPluginLoad only: the main store has it, a store
\* made by 'tjsdoc:system:docdb:create' does not.
HasConfig(s) == s = "main"

\* this._eventbus: the plugin's eventbus, or the one given to the constructor.
HasEventbus(s) == s \in {"main", "scratch", "old"}

\* DocDB.getCurrentID
getCurrentID(w, s) ==
    IF s = "main" THEN w.mainID ELSE IF s = "scratch" THEN w.scratchID ELSE 0

\* getCurrentIDAndIncrement that hands out the current id and keeps the counter.
getCurrentID_noIncrement(w, s) ==
    IF s = "main"
    THEN [w EXCEPT !.issued = @ \cup {w.mainID}, !.issuedSince = @ \cup {w.mainID}]
    ELSE w

\* DocDB.getCurrentIDAndIncrement: the world after the call (the id returned
\* is getCurrentID before the call).
getCurrentIDAndIncrement(w, s) ==
    IF s = "main"
    THEN [w EXCEPT !.mainID = @ + 1,
                   !.issued = @ \cup {w.mainID},
                   !.issuedSince = @ \cup {w.mainID}]
    ELSE IF s = "scratch" THEN [w EXCEPT !.scratchID = @ + 1]
    ELSE w

\* DocDB.filterDoc
filterDoc(s, doc) ==
    LET d == [doc EXCEPT !.content = FALSE]
    IN  IF HasConfig(s) /\ ~cfg.outputASTData THEN [d EXCEPT !.node = FALSE] ELSE d

RECURSIVE MapFilterDoc(_, _)
MapFilterDoc(s, docs) ==
    IF docs = <<>> THEN <<>>
    ELSE <<filterDoc(s, Head(docs))>> \o MapFilterDoc(s, Tail(docs))

\* find that leaves the records in table order.
find_unsorted(data) == data

\* DocDB.find / DocDB.findSorted with no order: data, the records of the
\* table that match the query in table order, by name ascending.
find(data) == OrderByName(data)

\* DocDB.find() with no query
findAll(db) == find(db)

\* A remove for which an empty array of file paths matches every record.
remove_allOfEmpty(db, filePath) ==
    IF filePath = {} THEN <<>> ELSE SelectSeq(db, LAMBDA r : r.filePath \notin filePath)

\* DocDB.remove({ filePath }): the query branch of remove with a query on
\* the filePath column, filePath being the set of values that match (for an
\* array, its elements; an empty array matches no record). The table without
\* the matching records.
remove(db, filePath) == SelectSeq(db, LAMBDA r : r.filePath \notin filePath)

\* The objects that insert and merge compare: a DocDB instance is named by
\* its store, the TaffyDB function it holds in this._docDB by TaffyOf.
DocDBOf(s) == <<s, "DocDB">>
TaffyOf(s) == <<s, "_docDB">>

\* The test `objectOrDB === this._docDB` of insert and merge, for a DocDB
\* objectOrDB: o names the store given, s the store called.
sameInstance(o, s) == o = TaffyOf(s)

\* DocDB.insert(objectOrDB) with a DocDB whose records are `other`: the table
\* after the call. The records of the given store are appended, in find()
\* order.
insertDB(s, db, other) == db \o MapFilterDoc(s, findAll(other))

\* TaffyDB merge of the records `docs` on the identity column id: a record
\* whose id is in the table updates the first such record, another one is
\* inserted.
RECURSIVE taffyMerge(_, _)
taffyMergeOne(db, o) ==
    IF \E i \in 1..Len(db) : db[i].id = o.id
    THEN LET i == CHOOSE k \in 1..Len(db) :
                     db[k].id = o.id /\ \A j \in 1..(k - 1) : db[j].id # o.id
         IN  [db EXCEPT ![i] = o]
    ELSE Append(db, o)
taffyMerge(db, docs) ==
    IF docs = <<>> THEN db ELSE taffyMerge(taffyMergeOne(db, Head(docs)), Tail(docs))

\* DocDB.merge(objectOrDB) with a DocDB and the default key.
mergeDB(s, db, other) == taffyMerge(db, MapFilterDoc(s, findAll(other)))

\* The values that a caller hands to insert and merge: v.typeof is what the
\* typeof operator gives for the value, and v.doc the DocObject when the value
\* is one.
NonObjects == {[typeof |-> t] : t \in {"string", "number", "boolean", "undefined"}}

\* An insert that takes any value without a word.
insert_silent(s, db, objectOrDB) == [raised |-> "none", db |-> db]

\* DocDB.insert(objectOrDB) with a value that is no DocDB: the error thrown
\* and the table after the call.
insert(s, db, objectOrDB) ==
    IF objectOrDB.typeof = "object"
    THEN [raised |-> "none", db |-> Append(db, filterDoc(s, objectOrDB.doc))]
    ELSE [raised |-> "ReferenceError", db |-> db]

\* DocDB.merge(objectOrDB) with a value that is no DocDB and the default key.
merge(s, db, objectOrDB) ==
    IF objectOrDB.typeof = "object"
    THEN [raised |-> "none", db |-> taffyMergeOne(db, objectOrDB.doc)]
    ELSE [raised |-> "ReferenceError", db |-> db]

\* removeAndInsertDB without its remove step.
removeAndInsertDB_noRemove(s, db, other) == insertDB(s, db, other)

\* DocDB.removeAndInsertDB(docDB): the table after the call.
removeAndInsertDB(s, db, other) ==
    LET filePath == Distinct(other)
    IN  insertDB(s, remove(db, Range(filePath)), other)

\* The three partitions of findAccessDocs without the builtinVirtual filter.
findAccessDocs_unfiltered(db) ==
    [Public |-> find(SelectSeq(db, LAMBDA r : r.access = "public")),
     Protected |-> find(SelectSeq(db, LAMBDA r : r.access = "protected")),
     Private |-> find(SelectSeq(db, LAMBDA r : r.access = "private"))]

\* DocDB.findAccessDocs() with no query
findAccessDocs(db) ==
    LET notBuiltin(ds) == SelectSeq(ds, LAMBDA v : ~v.builtinVirtual)
    IN  [Public |-> notBuiltin(find(SelectSeq(db, LAMBDA r : r.access = "public"))),
         Protected |-> notBuiltin(find(SelectSeq(db, LAMBDA r : r.access = "protected"))),
         Private |-> notBuiltin(find(SelectSeq(db, LAMBDA r : r.access = "private")))]

\* DocDB.findIdentifierKindDocs
findIdentifierKindDocs(db) ==
    [ModuleClass |->
         find(SelectSeq(db, LAMBDA r : r.kind = "ModuleClass" /\ r.interface = FALSE)),
     ModuleFunction |-> find(SelectSeq(db, LAMBDA r : r.kind = "ModuleFunction")),
     ModuleInterface |->
         find(SelectSeq(db, LAMBDA r : r.kind = "ModuleClass" /\ r.interface = TRUE)),
     ModuleVariable |-> find(SelectSeq(db, LAMBDA r : r.category = "ModuleVariable")),
     VirtualExternal |->
         SelectSeq(find(SelectSeq(db, LAMBDA r : r.kind = "VirtualExternal")),
                   LAMBDA v : ~v.builtinVirtual),
     VirtualTypedef |-> find(SelectSeq(db, LAMBDA r : r.kind = "VirtualTypedef"))]

\* s_SOURCE_COVERAGE_KIND
s_SOURCE_COVERAGE_KIND ==
    {"ClassMember", "ClassMethod", "ClassProperty", "ModuleAssignment", "ModuleClass",
     "ModuleFunction", "ModuleVariable"}

\* s_CALC_COVERAGE(actualCount, expectedCount). percent is a number with at
\* most two decimals; the model holds it in hundredths of a percent, the
\* integer that the code divides by 100 (10000 * actualCount is exact in a
\* double and its quotient is floored before the division).
s_CALC_COVERAGE(actualCount, expectedCount) ==
    LET percent == IF expectedCount = 0 THEN 0
                   ELSE (10000 * actualCount) \div expectedCount
    IN  [percent |-> percent, expectedCount |-> expectedCount,
         actualCount |-> actualCount,
         htmlColor |-> IF percent < 2500 THEN "#ff654f"
                       ELSE IF percent < 5000 THEN "#db654f"
                       ELSE IF percent < 9000 THEN "#dab226"
                       ELSE "#4fc921"]

\* The number of records of ds that count as documented.
Documented(ds) == Len(SelectSeq(ds, LAMBDA doc : ~doc.undocument))

\* getSourceCoverage that counts every record found as documented.
getSourceCoverage_allDocumented(db, filePath, includeFiles) ==
    LET docs == find(SelectSeq(db, LAMBDA r : r.kind \in s_SOURCE_COVERAGE_KIND))
    IN  [files |-> <<>>, total |-> s_CALC_COVERAGE(Len(docs), Len(docs))]

\* getSourceCoverage that counts the records of every file for each file.
getSourceCoverage_filesOfAll(db, filePath, includeFiles) ==
    LET docs == IF filePath # {}
                THEN find(SelectSeq(db, LAMBDA r : /\ r.kind \in s_SOURCE_COVERAGE_KIND
                                                  /\ r.filePath \in filePath))
                ELSE find(SelectSeq(db, LAMBDA r : r.kind \in s_SOURCE_COVERAGE_KIND))
        files == IF includeFiles
                 THEN [f \in {docs[i].filePath : i \in 1..Len(docs)} |->
                          s_CALC_COVERAGE(Documented(docs), Len(docs))]
                 ELSE <<>>
    IN  [files |-> files, total |-> s_CALC_COVERAGE(Documented(docs), Len(docs))]

\* DocDB.getSourceCoverage({ filePath, includeFiles }): filePath is the set
\* of paths of the query, or {} when the caller gives none. The result is
\* the files object and the coverage data assigned next to it.
getSourceCoverage(db, filePath, includeFiles) ==
    LET docs == IF filePath # {}
                THEN find(SelectSeq(db, LAMBDA r : /\ r.kind \in s_SOURCE_COVERAGE_KIND
                                                  /\ r.filePath \in filePath))
                ELSE find(SelectSeq(db, LAMBDA r : r.kind \in s_SOURCE_COVERAGE_KIND))
        of(f) == SelectSeq(docs, LAMBDA doc : doc.filePath = f)
        files == IF includeFiles
                 THEN [f \in {docs[i].filePath : i \in 1..Len(docs)} |->
                          s_CALC_COVERAGE(Documented(of(f)), Len(of(f)))]
                 ELSE <<>>
    IN  [files |-> files, total |-> s_CALC_COVERAGE(Documented(docs), Len(docs))]

\* DocDB.findDependentFiles(filePath, output) with a string filePath.
RECURSIVE AddAll(_, _)
AddAll(ra, vs) == IF vs = <<>> THEN ra ELSE AddAll(DistinctAdd(ra, Head(vs)), Tail(vs))
RECURSIVE DependentOf(_)
DependentOf(docs) ==
    IF docs = <<>> THEN <<>>
    ELSE AddAll(AddAll(DependentOf(SubSeq(docs, 1, Len(docs) - 1)),
                       docs[Len(docs)].deps), docs[Len(docs)].deps)
\* findDependentFiles that reads no record.
findDependentFiles_none(db, f, output) == output

findDependentFiles(db, f, output) ==
    output \o DependentOf(find(SelectSeq(db, LAMBDA r : r.kind = "ModuleFile" /\ r.filePath = f)))

\* DocDB.insertStaticDoc(staticDoc, docFilter) on store s. docFilter is "none"
\* (not a function), "accept" (a function that returns true) or "reject" (a
\* function that returns false).
insertStaticDoc(w, s, docObject, docFilter) ==
    LET addDoc == (docFilter # "reject") \/ TRUE     \* docFilter(docObject) || true
    IN  IF docFilter # "none" /\ ~addDoc
        THEN w
        ELSE LET w1 == IF HasEventbus(s) THEN [w EXCEPT !.hooks = @ + 1] ELSE w
             IN  PutDocs(w1, s, Append(Docs(w1, s), filterDoc(s, docObject)))

\* A step of insertStaticDoc: what is called, and whether the DocObject
\* carries its AST node when it is.
Step(name, doc) == [step |-> name, node |-> doc.node]

\* An insertStaticDoc that strips the DocObject before it invokes the hook.
insertStaticDocSteps_stripFirst(s, docObject, docFilter, resetArg) ==
    (IF docFilter # "none" THEN <<Step("docFilter", docObject)>> ELSE <<>>)
    \o <<Step("filterDoc", docObject)>>
    \o (IF HasEventbus(s) THEN <<Step("onHandleDocObject", filterDoc(s, docObject))>>
        ELSE <<>>)
    \o (IF resetArg THEN <<Step("reset", filterDoc(s, docObject))>> ELSE <<>>)
    \o <<Step("insert", filterDoc(s, docObject))>>

\* DocDB.insertStaticDoc(staticDoc, docFilter, reset) on store s, as the calls
\* it makes one after the other: resetArg is FALSE when the caller passes
\* reset = false or the static doc has no reset method.
insertStaticDocSteps(s, docObject, docFilter, resetArg) ==
    LET addDoc == (docFilter # "reject") \/ TRUE     \* docFilter(docObject) || true
    IN  IF docFilter # "none" /\ ~addDoc
        THEN <<Step("docFilter", docObject)>>
        ELSE (IF docFilter # "none" THEN <<Step("docFilter", docObject)>> ELSE <<>>)
             \o (IF HasEventbus(s) THEN <<Step("onHandleDocObject", docObject)>> ELSE <<>>)
             \o (IF resetArg THEN <<Step("reset", docObject)>> ELSE <<>>)
             \o <<Step("filterDoc", docObject)>>
             \o <<Step("insert", filterDoc(s, docObject))>>

-----------------------------------------------------------------------------
(* The generation pipeline. *)

HandleErrors == {"throw", "log"}

\* The AST of a file, as the kinds of the records that its nodes yield.
AstOf(f) == IF f \in Sources THEN <<"ModuleFile", "ModuleClass">> ELSE <<>>

ClassName(f) == IF f = "A" THEN "F" ELSE IF f = "B" THEN "G" ELSE "P"

\* The record that the doc factory builds for a node of file f.
DocFor(f, kind, id, gen) ==
    IF kind = "ModuleFile"
    THEN NewDoc(id, f, kind, <<f>>, <<f>>, <<>>, gen)
    ELSE NewDoc(id, f, kind, <<ClassName(f)>>, <<f, "~", ClassName(f)>>, <<f>>, gen)

\* docFactory.push(node, parent): the factory builds the record of the node,
\* with the next id of the store it was reset with, and admits it to that
\* store through insertStaticDoc.
push(w, kind, gen) ==
    LET s == w.facDB
    IN  insertStaticDoc(getCurrentIDAndIncrement(w, s), s,
                        DocFor(w.facFile, kind, getCurrentID(w, s), gen), "none")

\* A walk that ends at the failing node under the log policy too.
RECURSIVE enterNodes_abortOnLog(_, _, _, _, _, _)
enterNodes_abortOnLog(w, nodes, k, handleError, failAt, gen) ==
    IF nodes = <<>> THEN w
    ELSE IF k = failAt
    THEN IF handleError = "throw"
         THEN [w EXCEPT !.raised = "TraversalError"]
         ELSE [w EXCEPT !.invalid = @ + 1]
    ELSE enterNodes_abortOnLog(push(w, Head(nodes), gen), Tail(nodes), k + 1,
                               handleError, failAt, gen)

\* s_TRAVERSE: the walk over docFactory.ast. failAt is the position of the
\* node on which docFactory.push throws, 0 when it throws on none.
RECURSIVE enterNodes(_, _, _, _, _, _)
enterNodes(w, nodes, k, handleError, failAt, gen) ==
    IF nodes = <<>> THEN w
    ELSE IF k = failAt
    THEN IF handleError = "log"
         THEN enterNodes([w EXCEPT !.invalid = @ + 1], Tail(nodes), k + 1,
                         handleError, failAt, gen)
         ELSE IF handleError = "throw"
         THEN [w EXCEPT !.raised = "TraversalError"]
         ELSE enterNodes(w, Tail(nodes), k + 1, handleError, failAt, gen)
    ELSE enterNodes(push(w, Head(nodes), gen), Tail(nodes), k + 1,
                    handleError, failAt, gen)

s_TRAVERSE(w, handleError, failAt, gen) ==
    enterNodes(w, AstOf(w.facFile), 1, handleError, failAt, gen)

\* GenerateDocData._resetDocFactory for a file path: parseOK tells whether the
\* parser accepts the file. The factory is reset only when the method gets
\* past the parse.
resetDocFactory(w, s, handleError, f, parseOK) ==
    IF parseOK
    THEN [w EXCEPT !.parsed = TRUE, !.facFile = f, !.facDB = s]
    ELSE IF handleError = "log" THEN [w EXCEPT !.parsed = TRUE, !.invalid = @ + 1]
    ELSE IF handleError = "throw" THEN [w EXCEPT !.parsed = TRUE, !.raised = "ParseError"]
    ELSE [w EXCEPT !.parsed = TRUE, !.facFile = "none", !.facDB = s]

\* generateFileDocData that fills the main store whatever store it is given.
generateFileDocData_intoMain(w, s, f, handleError, parseOK, failAt, gen) ==
    IF f \notin cfg.included \/ f \in cfg.excluded
    THEN w
    ELSE LET w1 == resetDocFactory(w, "main", handleError, f, parseOK)
             w2 == IF w1.raised # "none" THEN w1
                   ELSE s_TRAVERSE(w1, handleError, failAt, gen)
         IN  IF w2.raised = "none" THEN [w2 EXCEPT !.returned = "docDB"] ELSE w2

\* generateFileDocData that looks at no include pattern.
generateFileDocData_noIncludes(w, s, f, handleError, parseOK, failAt, gen) ==
    IF f \in cfg.excluded
    THEN w
    ELSE LET w1 == resetDocFactory(w, s, handleError, f, parseOK)
             w2 == IF w1.raised # "none" THEN w1
                   ELSE s_TRAVERSE(w1, handleError, failAt, gen)
         IN  IF w2.raised = "none" THEN [w2 EXCEPT !.returned = "docDB"] ELSE w2

\* GenerateDocData.generateFileDocData({ filePath, docDB, handleError }): s is
\* the target store, or "temp" when the caller gave none. cfg.included holds
\* the files whose relative path matches a pattern of config._includes,
\* cfg.excluded the ones that match a pattern of config._excludes. In the
\* world returned, raised names the error thrown, returned is "docDB" or
\* "undefined" and parsed tells whether the parser was invoked.
generateFileDocData(w, s, f, handleError, parseOK, failAt, gen) ==
    IF f \notin cfg.included
    THEN w
    ELSE IF f \in cfg.excluded
    THEN w
    ELSE LET w1 == resetDocFactory(w, s, handleError, f, parseOK)
             w2 == IF w1.raised # "none" THEN w1
                   ELSE s_TRAVERSE(w1, handleError, failAt, gen)
         IN  IF w2.raised = "none" THEN [w2 EXCEPT !.returned = "docDB"] ELSE w2

\* The world with the doc factory and the test doc factory in each other's
\* place.
withTestDocFactory(w) ==
    [w EXCEPT !.facFile = w.testFile, !.facDB = w.testDB,
              !.testFile = w.facFile, !.testDB = w.facDB]

\* GenerateDocData.generateTestDocData({ filePath, docDB, handleError }): the
\* filters are the ones of config.test, and _resetDocFactory and s_TRAVERSE
\* are given the test doc factory.
generateTestDocData(w, s, f, handleError, parseOK, failAt, gen) ==
    IF f \notin cfg.test.included
    THEN w
    ELSE IF f \in cfg.test.excluded
    THEN w
    ELSE LET w0 == withTestDocFactory(w)
             w1 == resetDocFactory(w0, s, handleError, f, parseOK)
             w2 == IF w1.raised # "none" THEN w1
                   ELSE s_TRAVERSE(w1, handleError, failAt, gen)
             w3 == withTestDocFactory(w2)
         IN  IF w3.raised = "none" THEN [w3 EXCEPT !.returned = "docDB"] ELSE w3

-----------------------------------------------------------------------------
(* The core resolver, a collaborator: it writes the dependent file paths   *)
(* of the ModuleFile records of the files it is constrained to. What it    *)
(* writes depends on the sources, so it is an input: d gives the dependent *)
(* paths per file.                                                         *)

DepLists(f) == IF f = "A" THEN {<<>>, <<"B">>} ELSE {<<>>, <<"A">>}

DepChoices == {d \in [Files -> {<<>>, <<"A">>, <<"B">>}] : \A f \in Files : d[f] \in DepLists(f)}

RECURSIVE resolve(_, _, _)
resolve(db, paths, d) ==
    IF db = <<>> THEN <<>>
    ELSE LET r == Head(db)
         IN  <<IF r.kind = "ModuleFile" /\ r.filePath \in paths
               THEN [r EXCEPT !.deps = d[r.filePath]] ELSE r>>
             \o resolve(Tail(db), paths, d)

-----------------------------------------------------------------------------
(* The state. *)

\* The config whose include patterns match the files of included and whose
\* exclude patterns match the files of excluded; ti and te are the same of
\* config.test.
Config(outputASTData, included, excluded, ti, te) ==
    [outputASTData |-> outputASTData, includeSource |-> FALSE,
     included |-> included, excluded |-> excluded,
     test |-> [included |-> ti, excluded |-> te]]

\* The configs of the runs in which every file is a source file.
Configs == {Config(a, Files, e, Files, {}) : a \in BOOLEAN, e \in {{}, {"B"}}}

NoOpt == [filePath |-> "none", dependent |-> FALSE, resolve |-> FALSE,
          handleError |-> "throw"]

NoOut == [op |-> "none", raised |-> "none", paths |-> <<>>, arg |-> "none"]

\* No call has been made and no store but the main store exists.
NoCall ==
    /\ scratch = <<>> /\ scratchID = 0
    /\ pc = "idle" /\ opt = NoOpt /\ genDB = "undefined"
    /\ todo = <<>> /\ filePaths = <<>>
    /\ out = NoOut /\ pre = <<>>
    /\ pass = 0
    /\ issued = {} /\ issuedSince = {}
    /\ hooks = 0
    /\ facFile = "none" /\ facDB = "none"
    /\ testFile = "none" /\ testDB = "none"
    /\ invalid = 0
    /\ lintResults = <<>> /\ invalidCode = <<>> /\ logged = <<>>
    /\ query = <<>> /\ found = <<>>

\* The runtime has loaded its plugins: the main store is empty.
\* The operational modes of a DocDB.
Modes == {"generate", "regenerate"}

\* new DocDB({ eventbus }): the mode of the main store is the default.
Init ==
    /\ main = <<>> /\ mainID = 0
    /\ mode = "generate"
    /\ cfg \in Configs
    /\ NoCall

\* The state after a call that made world w.
Install(w) ==
    /\ main' = w.main /\ mainID' = w.mainID
    /\ scratch' = w.scratch /\ scratchID' = w.scratchID
    /\ hooks' = w.hooks
    /\ issued' = w.issued /\ issuedSince' = w.issuedSince
    /\ facFile' = w.facFile /\ facDB' = w.facDB
    /\ testFile' = w.testFile /\ testDB' = w.testDB
    /\ invalid' = w.invalid
    /\ UNCHANGED <<lintResults, invalidCode, logged>>

-----------------------------------------------------------------------------
(* Calls. A call runs from "idle" to "done", where its caller sees what it *)
(* returned or threw; Return is the caller going on.                       *)

\* The call ends: error names what it throws, "none" when it returns.
End(op, error, paths) ==
    /\ pc' = "done"
    /\ out' = [op |-> op, raised |-> error, paths |-> paths, arg |-> "none"]

Return ==
    /\ pc = "done"
    /\ pc' = "idle"
    /\ out' = NoOut /\ opt' = NoOpt /\ pre' = <<>>
    /\ genDB' = "undefined" /\ todo' = <<>> /\ filePaths' = <<>>
    /\ scratch' = <<>> /\ scratchID' = 0
    /\ facDB' = IF facDB = "scratch" THEN "old" ELSE facDB
    /\ testDB' = IF testDB = "scratch" THEN "old" ELSE testDB
    /\ hooks' = 0 /\ invalid' = 0 /\ logged' = <<>>
    /\ query' = <<>> /\ found' = <<>>
    /\ UNCHANGED <<main, mainID, cfg, mode, pass, issued, issuedSince, facFile,
                   testFile, lintResults, invalidCode>>

-----------------------------------------------------------------------------
(* Full generation: the runtime generates a file into the main store.      *)

\* parseOK tells whether the parser accepts the file, failAt the position of
\* the node on which the doc factory throws (0 for none).
FullGenerate(f, handleError, parseOK, failAt) ==
    /\ pc = "idle"
    /\ pass < MaxPass
    /\ LET w == generateFileDocData(World, "main", f, handleError, parseOK, failAt,
                                    pass + 1)
       IN  /\ Install(w)
           /\ End("generate", w.raised, <<>>)
           /\ found' = w.returned
    /\ opt' = [filePath |-> f, dependent |-> FALSE, resolve |-> FALSE,
               handleError |-> handleError]
    /\ pre' = main
    /\ pass' = pass + 1
    /\ query' = <<parseOK, failAt>>
    /\ UNCHANGED <<cfg, mode, genDB, todo, filePaths>>

\* The runtime runs the core resolver over the whole main store.
ResolveAll(d) ==
    /\ pc = "idle"
    /\ main' = resolve(main, Files, d)
    /\ main' # main
    /\ UNCHANGED <<mainID, scratch, scratchID, cfg, mode, pc, opt, genDB, todo, filePaths,
                   out, pre, pass, issued, issuedSince, hooks, facFile, facDB, testFile, testDB,
                   invalid, lintResults, invalidCode, logged, query, found>>

-----------------------------------------------------------------------------
(* RegenerateDocData._regenerateDocData, step by step. The call is         *)
(* synchronous: while it runs nothing else does. Its docFilter option is   *)
(* put into generateOptions and read by nothing in generateFileDocData, so *)
(* the model leaves it out.                                                *)

\* Entry: the argument checks pass and the scratch store is created.
StartRegenerate(f, dependent, resolveOpt, handleError) ==
    /\ pc = "idle"
    /\ pass + 1 + (IF dependent THEN Len(findDependentFiles(main, f, <<>>)) ELSE 0) <= MaxPass
    /\ pc' = "primary"
    /\ opt' = [filePath |-> f, dependent |-> dependent, resolve |-> resolveOpt,
               handleError |-> handleError]
    /\ scratch' = <<>> /\ scratchID' = 0
    /\ genDB' = "scratch"
    /\ pre' = main
    /\ UNCHANGED <<main, mainID, cfg, mode, todo, filePaths, out, pass, issued,
                   issuedSince, hooks, facFile, facDB, testFile, testDB, invalid, lintResults, invalidCode, logged, query, found>>

\* generateOptions.docDB = triggerSync(event, generateOptions)
BuildPrimary(parseOK, failAt) ==
    /\ pc = "primary"
    /\ LET w == generateFileDocData(World, "scratch", opt.filePath, opt.handleError,
                                    parseOK, failAt, pass + 1)
           deps == IF opt.dependent THEN findDependentFiles(w.main, opt.filePath, <<>>)
                   ELSE <<>>
       IN  /\ Install(w)
           /\ IF w.raised # "none"
              THEN /\ End("regenerate", w.raised, <<>>)
                   /\ UNCHANGED <<genDB, todo>>
              ELSE /\ genDB' = IF w.returned = "docDB" THEN "scratch" ELSE "undefined"
                   /\ todo' = deps
                   /\ pc' = IF deps # <<>> THEN "dependents" ELSE "replace"
                   /\ out' = out
    /\ pass' = pass + 1
    /\ UNCHANGED <<cfg, mode, opt, pre, filePaths, query, found>>

\* forEach dependent path: trigger(event, generateOptions)
BuildDependent(parseOK, failAt) ==
    /\ pc = "dependents"
    /\ todo # <<>>
    /\ LET s == IF genDB = "scratch" THEN "scratch" ELSE "temp"
           w == generateFileDocData(World, s, Head(todo), opt.handleError,
                                    parseOK, failAt, pass + 1)
       IN  /\ Install(w)
           /\ IF w.raised # "none"
              THEN /\ End("regenerate", w.raised, <<>>)
                   /\ todo' = todo
              ELSE /\ todo' = Tail(todo)
                   /\ pc' = IF Tail(todo) # <<>> THEN "dependents" ELSE "replace"
                   /\ out' = out
    /\ pass' = pass + 1
    /\ UNCHANGED <<cfg, mode, opt, pre, genDB, filePaths, query, found>>

\* filePaths = docDB.removeAndInsertDB(generateOptions.docDB), and the return
\* when resolve is off. A generateOptions.docDB of undefined (the changed
\* file was skipped) makes removeAndInsertDB throw a TypeError at its first
\* statement. The records inserted are the scratch store's own objects, so
\* filterDoc changes them in the scratch store as well.
ReplaceInStore ==
    /\ pc = "replace"
    /\ IF genDB = "undefined"
       THEN /\ End("regenerate", "TypeError", <<>>)
            /\ UNCHANGED <<main, scratch, filePaths>>
       ELSE /\ main' = removeAndInsertDB("main", main, scratch)
            /\ scratch' = MapFilterDoc("main", scratch)
            /\ filePaths' = Distinct(scratch)
            /\ IF opt.resolve
               THEN pc' = "resolve" /\ out' = out
               ELSE End("regenerate", "none", Distinct(scratch))
    /\ UNCHANGED <<mainID, scratchID, cfg, mode, opt, pre, genDB, todo, pass, issued,
                   issuedSince, hooks, facFile, facDB, testFile, testDB, invalid, lintResults, invalidCode, logged, query, found>>

\* A resolve step that returns the paths of the replacement as they are.
ResolveConstrained_keepPaths(ok, d) ==
    /\ pc = "resolve"
    /\ IF ~ok
       THEN /\ End("regenerate", "ResolverError", <<>>)
            /\ UNCHANGED <<main, filePaths>>
       ELSE /\ main' = resolve(main, Range(filePaths), d)
            /\ filePaths' = filePaths
            /\ End("regenerate", "none", filePaths')
    /\ UNCHANGED <<mainID, scratch, scratchID, cfg, mode, opt, pre, genDB, todo, pass, issued,
                   issuedSince, hooks, facFile, facDB, testFile, testDB, invalid, lintResults, invalidCode, logged, query, found>>

\* trigger('tjsdoc:system:resolver:docdb:resolve', { filePath: filePaths }),
\* the new dependent files, and the return. ok is FALSE when the resolver
\* throws.
ResolveConstrained(ok, d) ==
    /\ pc = "resolve"
    /\ IF ~ok
       THEN /\ End("regenerate", "ResolverError", <<>>)
            /\ UNCHANGED <<main, filePaths>>
       ELSE /\ main' = resolve(main, Range(filePaths), d)
            /\ filePaths' = IF opt.dependent
                            THEN findDependentFiles(main', opt.filePath, <<opt.filePath>>)
                            ELSE filePaths
            /\ End("regenerate", "none", filePaths')
    /\ UNCHANGED <<mainID, scratch, scratchID, cfg, mode, opt, pre, genDB, todo, pass, issued, issuedSince, hooks, facFile, facDB, testFile, testDB, invalid, lintResults, invalidCode, logged, query, found>>

Next ==
    \/ \E f \in Files, h \in HandleErrors, ok \in BOOLEAN, k \in 0..2 :
          FullGenerate(f, h, ok, k)
    \/ \E d \in DepChoices : ResolveAll(d)
    \/ \E f \in Files, dep \in BOOLEAN, res \in BOOLEAN, h \in HandleErrors :
          StartRegenerate(f, dep, res, h)
    \/ \E ok \in BOOLEAN, k \in 0..2 : BuildPrimary(ok, k)
    \/ \E ok \in BOOLEAN, k \in 0..2 : BuildDependent(ok, k)
    \/ ReplaceInStore
    \/ \E ok \in BOOLEAN, d \in DepChoices : ResolveConstrained(ok, d)
    \/ Return

Spec == Init /\ [][Next]_vars

-----------------------------------------------------------------------------
(* Regenerations of a project that has been generated: the main store      *)
(* holds the resolved records of every file.                               *)

\* The world of a runtime that has generated nothing yet.
NewWorld ==
    [main |-> <<>>, mainID |-> 0, scratch |-> <<>>, scratchID |-> 0,
     hooks |-> 0, issued |-> {}, issuedSince |-> {},
     facFile |-> "none", facDB |-> "none", invalid |-> 0,
     testFile |-> "none", testDB |-> "none",
     raised |-> "none", returned |-> "undefined", parsed |-> FALSE]

\* The world after the full generation of file f and then of file g into the
\* main store, under the throw policy and without a failure.
GeneratedWorld(f, g) ==
    generateFileDocData(generateFileDocData(NewWorld, "main", f, "throw", TRUE, 0, 0),
                        "main", g, "throw", TRUE, 0, 0)

\* Both files have been generated, in either order, and the core resolver
\* has run over the main store.
InitRegenerate ==
    /\ cfg = Config(FALSE, Files, {}, Files, {})
    /\ mode = "generate"
    /\ \E f \in Files, g \in Files, d \in DepChoices :
          /\ f # g
          /\ main = resolve(GeneratedWorld(f, g).main, Files, d)
          /\ mainID = GeneratedWorld(f, g).mainID
          /\ issued = GeneratedWorld(f, g).issued
          /\ issuedSince = GeneratedWorld(f, g).issuedSince
          /\ facFile = GeneratedWorld(f, g).facFile
          /\ facDB = GeneratedWorld(f, g).facDB
    /\ testFile = "none" /\ testDB = "none"
    /\ scratch = <<>> /\ scratchID = 0
    /\ pc = "idle" /\ opt = NoOpt /\ genDB = "undefined"
    /\ todo = <<>> /\ filePaths = <<>>
    /\ out = NoOut /\ pre = <<>>
    /\ pass = 0
    /\ hooks = 0
    /\ invalid = 0
    /\ lintResults = <<>> /\ invalidCode = <<>> /\ logged = <<>>
    /\ query = <<>> /\ found = <<>>

NextRegenerate ==
    \/ \E f \in Files, dep \in BOOLEAN, res \in BOOLEAN, h \in HandleErrors :
          StartRegenerate(f, dep, res, h)
    \/ \E ok \in BOOLEAN, k \in 0..2 : BuildPrimary(ok, k)
    \/ \E ok \in BOOLEAN, k \in 0..2 : BuildDependent(ok, k)
    \/ ReplaceInStore
    \/ \E ok \in BOOLEAN, d \in DepChoices : ResolveConstrained(ok, d)
    \/ Return

SpecRegenerate == InitRegenerate /\ [][NextRegenerate]_vars

-----------------------------------------------------------------------------
(* Regenerations of a generated project of three files, in which B is a    *)
(* dependent file of A and C one of B.                                     *)

\* What the resolver writes: the dependent files of A are B alone, or B and
\* C; the one of B is C.
ChainDeps ==
    {[f \in Sources |-> IF f = "A" THEN a ELSE IF f = "B" THEN <<"C">> ELSE <<>>]
        : a \in {<<"B">>, <<"B", "C">>}}

InitChain ==
    /\ cfg = Config(FALSE, Sources, {}, Sources, {})
    /\ mode = "generate"
    /\ \E d \in ChainDeps :
          LET w == generateFileDocData(GeneratedWorld("A", "B"), "main", "C", "throw",
                                       TRUE, 0, 0)
          IN  /\ main = resolve(w.main, Sources, d)
              /\ mainID = w.mainID
              /\ issued = w.issued /\ issuedSince = w.issuedSince
              /\ facFile = w.facFile /\ facDB = w.facDB
    /\ testFile = "none" /\ testDB = "none"
    /\ scratch = <<>> /\ scratchID = 0
    /\ pc = "idle" /\ opt = NoOpt /\ genDB = "undefined"
    /\ todo = <<>> /\ filePaths = <<>>
    /\ out = NoOut /\ pre = <<>>
    /\ pass = 0
    /\ hooks = 0
    /\ invalid = 0
    /\ lintResults = <<>> /\ invalidCode = <<>> /\ logged = <<>>
    /\ query = <<>> /\ found = <<>>

\* The regenerations of the chain; the parser accepts or rejects a file and
\* the doc factory throws on no node.
NextChain ==
    \/ \E f \in Sources, dep \in BOOLEAN, res \in BOOLEAN, h \in HandleErrors :
          StartRegenerate(f, dep, res, h)
    \/ \E ok \in BOOLEAN : BuildPrimary(ok, 0)
    \/ \E ok \in BOOLEAN : BuildDependent(ok, 0)
    \/ ReplaceInStore
    \/ \E ok \in BOOLEAN, d \in ChainDeps : ResolveConstrained(ok, d)
    \/ Return

SpecChain == InitChain /\ [][NextChain]_vars

-----------------------------------------------------------------------------
(* The store's own operations, called one at a time on the main store with *)
(* arguments drawn from bounded sets.                                      *)

\* records in the main store
MaxDocs == 3
\* ids the main store assigns between two resets
MaxID == 3
\* records of a store given to removeAndInsertDB
MaxGiven == 2

DocFilters == {"none", "accept", "reject"}

EndWith(op, error, paths, arg) ==
    /\ pc' = "done"
    /\ out' = [op |-> op, raised |-> error, paths |-> paths, arg |-> arg]

\* The kind of the record that the doc factory builds next for file f in a
\* store with records db: the module-file record first, then a class.
NextKind(db, f) ==
    IF \E i \in 1..Len(db) : db[i].filePath = f THEN "ModuleClass" ELSE "ModuleFile"

\* The stores that a caller can build in a DocDB of its own: the doc factory
\* admits a record for each file of l, one after the other, and the store
\* numbers them from 0. The store has no config, so the records keep their
\* AST nodes.
RECURSIVE Built(_)
Built(l) ==
    IF l = <<>> THEN <<>>
    ELSE LET b == Built(SubSeq(l, 1, Len(l) - 1))
             f == l[Len(l)]
         IN  Append(b, filterDoc("scratch", DocFor(f, NextKind(b, f), Len(b), 1)))

GivenStores == {Built(l) : l \in UNION {[1..n -> Files] : n \in 0..MaxGiven}}

\* docFactory.push on the main store: the next id, then insertStaticDoc with
\* the caller's docFilter.
InsertStaticDoc(f, docFilter) ==
    /\ pc = "idle"
    /\ Len(main) < MaxDocs /\ mainID < MaxID
    /\ Install(insertStaticDoc(getCurrentIDAndIncrement(World, "main"), "main",
                               DocFor(f, NextKind(main, f), mainID, 0), docFilter))
    /\ EndWith("insertStaticDoc", "none", <<>>, docFilter)
    /\ pre' = main
    /\ UNCHANGED <<cfg, mode, opt, genDB, todo, filePaths, pass, query, found>>

\* main.removeAndInsertDB(S) with another store S
RemoveAndInsertDB(S) ==
    /\ pc = "idle"
    /\ Len(removeAndInsertDB("main", main, S)) <= MaxDocs
    /\ main' = removeAndInsertDB("main", main, S)
    /\ scratch' = MapFilterDoc("main", S)
    /\ EndWith("removeAndInsertDB", "none", Distinct(S), "other")
    /\ pre' = main
    /\ UNCHANGED <<mainID, scratchID, cfg, mode, opt, genDB, todo, filePaths, pass, issued, issuedSince, hooks, facFile, facDB, testFile, testDB, invalid, lintResults, invalidCode, logged, query, found>>

\* main.insert(S) with another store S: filterDoc works on the records of S
\* themselves, so scratch holds the records of S as the call leaves them and
\* query the records it held before.
Insert(S) ==
    /\ pc = "idle"
    /\ S # <<>> /\ Len(main) + Len(S) <= MaxDocs
    /\ main' = insertDB("main", main, S)
    /\ scratch' = MapFilterDoc("main", S)
    /\ query' = S
    /\ EndWith("insert", "none", <<>>, "other")
    /\ pre' = main
    /\ UNCHANGED <<mainID, scratchID, cfg, mode, opt, genDB, todo, filePaths, pass, issued,
                   issuedSince, hooks, facFile, facDB, testFile, testDB, invalid, lintResults, invalidCode, logged, found>>

\* main.insert(main)
InsertSelf ==
    /\ pc = "idle"
    /\ main # <<>> /\ 2 * Len(main) <= MaxDocs + 1
    /\ IF sameInstance(DocDBOf("main"), "main")
       THEN /\ EndWith("insert", "ReferenceError", <<>>, "self")
            /\ main' = main
       ELSE /\ EndWith("insert", "none", <<>>, "self")
            /\ main' = insertDB("main", main, main)
    /\ pre' = main
    /\ UNCHANGED <<mainID, scratch, scratchID, cfg, mode, opt, genDB, todo, filePaths, pass,
                   issued, issuedSince, hooks, facFile, facDB, testFile, testDB, invalid, lintResults, invalidCode, logged, query,
                   found>>

\* main.merge(main)
MergeSelf ==
    /\ pc = "idle"
    /\ main # <<>>
    /\ IF sameInstance(DocDBOf("main"), "main")
       THEN /\ EndWith("merge", "ReferenceError", <<>>, "self")
            /\ main' = main
       ELSE /\ EndWith("merge", "none", <<>>, "self")
            /\ main' = mergeDB("main", main, main)
    /\ pre' = main
    /\ UNCHANGED <<mainID, scratch, scratchID, cfg, mode, opt, genDB, todo, filePaths, pass,
                   issued, issuedSince, hooks, facFile, facDB, testFile, testDB, invalid, lintResults, invalidCode, logged, query,
                   found>>

\* main.remove({ filePath: f })
Remove(f) ==
    /\ pc = "idle"
    /\ \E i \in 1..Len(main) : main[i].filePath = f
    /\ main' = remove(main, {f})
    /\ EndWith("remove", "none", <<>>, f)
    /\ pre' = main
    /\ UNCHANGED <<mainID, scratch, scratchID, cfg, mode, opt, genDB, todo, filePaths, pass,
                   issued, issuedSince, hooks, facFile, facDB, testFile, testDB, invalid, lintResults, invalidCode, logged, query,
                   found>>

\* A reset that removes the records and keeps the id counter.
reset_keepCounter(w) == [w EXCEPT !.main = <<>>]

\* DocDB.reset: the world after the call on the main store.
reset(w) == [w EXCEPT !.main = <<>>, !.mainID = 0, !.issuedSince = {}]

\* main.reset()
Reset ==
    /\ pc = "idle"
    /\ mainID > 0 \/ main # <<>>
    /\ Install(reset(World))
    /\ EndWith("reset", "none", <<>>, "none")
    /\ pre' = main
    /\ UNCHANGED <<cfg, mode, opt, genDB, todo, filePaths, pass, query, found>>

\* main.setMode(m)
SetMode(m) ==
    /\ pc = "idle"
    /\ mode' = m
    /\ query' = <<m>>
    /\ EndWith("setMode", "none", <<>>, "none")
    /\ pre' = main
    /\ UNCHANGED <<main, mainID, scratch, scratchID, cfg, opt, genDB, todo, filePaths,
                   pass, issued, issuedSince, hooks, facFile, facDB, testFile, testDB, invalid, lintResults, invalidCode, logged, found>>

\* The file paths that a find query selects: every record for "all" (no
\* query), the records of one file for { filePath }.
QueryFiles(q) == IF q = "all" THEN Files ELSE {q}

\* main.find() and main.find({ filePath: q })
Find(q) ==
    /\ pc = "idle"
    /\ main # <<>>
    /\ found' = find(SelectSeq(main, LAMBDA r : r.filePath \in QueryFiles(q)))
    /\ EndWith("find", "none", <<>>, q)
    /\ pre' = main
    /\ UNCHANGED <<main, mainID, scratch, scratchID, cfg, mode, opt, genDB, todo, filePaths,
                   pass, issued, issuedSince, hooks, facFile, facDB, testFile, testDB, invalid, lintResults, invalidCode, logged, query>>

NextStore ==
    \/ \E q \in Files \cup {"all"} : Find(q)
    \/ \E f \in Files, fl \in DocFilters : InsertStaticDoc(f, fl)
    \/ \E S \in GivenStores : RemoveAndInsertDB(S)
    \/ InsertSelf
    \/ MergeSelf
    \/ \E f \in Files : Remove(f)
    \/ Reset
    \/ \E m \in Modes : SetMode(m)
    \/ Return

\* The include and exclude filters play no part in the store's operations.
\* The main store is made with either mode: new DocDB({ eventbus, mode }).
InitStore ==
    /\ main = <<>> /\ mainID = 0
    /\ mode \in Modes
    /\ cfg \in Configs /\ cfg.excluded = {}
    /\ NoCall

SpecStore == InitStore /\ [][NextStore]_vars

-----------------------------------------------------------------------------
(* The include and exclude filters: generation calls for source and test   *)
(* files into the main store, under every combination of files matched by  *)
(* the four pattern lists.                                                  *)

\* generation calls in a run
MaxCalls == 2

FilterConfigs ==
    {Config(FALSE, i, e, ti, te) : i \in SUBSET Files, e \in SUBSET Files,
                                   ti \in SUBSET Files, te \in SUBSET Files}

InitFilter ==
    /\ main = <<>> /\ mainID = 0
    /\ mode = "generate"
    /\ cfg \in FilterConfigs
    /\ NoCall

\* The generation call has made world w: the caller sees what it returned or
\* threw.
Generated(op, w, f, handleError, parseOK, failAt) ==
    /\ Install(w)
    /\ End(op, w.raised, <<>>)
    /\ found' = w.returned
    /\ query' = <<parseOK, failAt, w.parsed>>
    /\ opt' = [filePath |-> f, dependent |-> FALSE, resolve |-> FALSE,
               handleError |-> handleError]
    /\ pre' = main
    /\ pass' = pass + 1
    /\ UNCHANGED <<cfg, mode, genDB, todo, filePaths>>

\* generateFileDocData({ filePath: f, docDB: main, handleError })
GenerateFileDocData(f, handleError, parseOK, failAt) ==
    /\ pc = "idle"
    /\ pass < MaxCalls
    /\ Generated("generateFileDocData",
                 generateFileDocData(World, "main", f, handleError, parseOK, failAt,
                                     pass + 1),
                 f, handleError, parseOK, failAt)

\* generateTestDocData({ filePath: f, docDB: main, handleError })
GenerateTestDocData(f, handleError, parseOK, failAt) ==
    /\ pc = "idle"
    /\ pass < MaxCalls
    /\ Generated("generateTestDocData",
                 generateTestDocData(World, "main", f, handleError, parseOK, failAt,
                                     pass + 1),
                 f, handleError, parseOK, failAt)

NextFilter ==
    \/ \E f \in Files, h \in HandleErrors, ok \in BOOLEAN, k \in 0..2 :
          GenerateFileDocData(f, h, ok, k)
    \/ \E f \in Files, h \in HandleErrors, ok \in BOOLEAN, k \in 0..2 :
          GenerateTestDocData(f, h, ok, k)
    \/ Return

SpecFilter == InitFilter /\ [][NextFilter]_vars

-----------------------------------------------------------------------------
(* Lookup by name, on a main store that holds the resolved records of a    *)
(* small class hierarchy.                                                  *)

\* ancestors in an extends chain
MaxChain == 2

\* new RegExp(`[~]${name.replace('*', '\\*')}$`).test(longname): the longname
\* ends with "~" and the name, where a "." of the name stands for any
\* character and the first "*" of the name for itself. (Names with a second
\* "*", or with another character that a regular expression reads as an
\* operator, are not among the queries.)
regexTest(name, longname) ==
    LET pat == <<"~">> \o name
        off == Len(longname) - Len(pat)
    IN  /\ off >= 0
        /\ \A i \in 1..Len(pat) :
               \/ i > 1 /\ pat[i] = "."
               \/ pat[i] = longname[off + i]

\* name.match(/(.*)[.#](.*)$/): the position of the last "." or "#" of the
\* name, 0 when it has none.
matched(name) ==
    LET seps == {i \in 1..Len(name) : name[i] \in {".", "#"}}
    IN  IF seps = {} THEN 0 ELSE CHOOSE i \in seps : \A j \in seps : j <= i

kindIs(r, kind) == kind = "any" \/ r.kind = kind

\* The loop over parentDoc._custom_extends_chains of findByName: docs is the
\* result of the lookup by regular expression, which the loop tests.
RECURSIVE inherited(_, _, _, _)
inherited(db, docs, chains, childName) ==
    IF chains = <<>> THEN <<>>
    ELSE IF Len(docs) > 0
    THEN find(SelectSeq(db, LAMBDA r : r.memberof = Head(chains) /\ r.name = childName))
    ELSE inherited(db, docs, Tail(chains), childName)

\* DocDB.findByName(name, kind); kind is "any" when the caller gives none.
RECURSIVE findByName(_, _, _)
findByName(db, name, kind) ==
    LET byLongname == find(SelectSeq(db, LAMBDA r : r.longname = name /\ kindIs(r, kind)))
        byName == find(SelectSeq(db, LAMBDA r : r.name = name /\ kindIs(r, kind)))
        docs == find(SelectSeq(db, LAMBDA r : regexTest(name, r.longname) /\ kindIs(r, kind)))
        m == matched(name)
    IN  IF byLongname # <<>> THEN byLongname
        ELSE IF byName # <<>> THEN byName
        ELSE IF docs # <<>> THEN docs
        ELSE IF m = 0 THEN <<>>
        ELSE LET parent == SubSeq(name, 1, m - 1)
                 childName == SubSeq(name, m + 1, Len(name))
                 parentDocs == findByName(db, parent, "ModuleClass")
             IN  IF parentDocs = <<>> THEN <<>>
                 ELSE inherited(db, docs, parentDocs[1].chains, childName)

\* The records of the hierarchy: class F of file A, classes G and P of file
\* B, and a method b that each class may declare.
ClassFile(c) == IF c = "F" THEN "A" ELSE "B"
ClassLongname(c) == <<ClassFile(c), "~", c>>
ClassDoc(c, chains) ==
    [NewDoc(0, ClassFile(c), "ModuleClass", <<c>>, ClassLongname(c),
            <<ClassFile(c)>>, 1) EXCEPT !.chains = chains]
MethodDoc(c, sep) ==
    NewDoc(0, ClassFile(c), "ClassMethod", <<"b">>, ClassLongname(c) \o <<sep, "b">>,
           ClassLongname(c), 1)

\* The extends chains that the resolver can have written for class F: its
\* ancestors, nearest first.
Chains ==
    {ch \in UNION {[1..n -> {ClassLongname("G"), ClassLongname("P")}] : n \in 0..MaxChain} :
        \A i, j \in 1..Len(ch) : i # j => ch[i] # ch[j]}

\* The table with the records of l numbered in insertion order and filtered
\* as the main store filters what it admits.
Numbered(l) == [i \in 1..Len(l) |-> filterDoc("main", [l[i] EXCEPT !.id = i - 1])]

Optional(b, r) == IF b THEN <<r>> ELSE <<>>

Hierarchies ==
    {Numbered(<<ClassDoc("F", ch), ClassDoc("G", <<>>)>>
              \o Optional(hasP, ClassDoc("P", <<>>))
              \o Optional(ownF, MethodDoc("F", sepF))
              \o Optional(ownG, MethodDoc("G", "#"))
              \o Optional(ownP /\ hasP, MethodDoc("P", "#"))) :
        ch \in Chains, hasP \in BOOLEAN, ownF \in BOOLEAN, sepF \in {"#", "."},
        ownG \in BOOLEAN, ownP \in BOOLEAN}

Queries ==
    {<<"F", "#", "b">>, <<"F", ".", "b">>, <<"G", "#", "b">>, <<"P", "#", "b">>,
     <<"A", "~", "F", "#", "b">>, <<"b">>, <<"F">>, <<"*">>}

InitFind ==
    /\ cfg \in Configs
    /\ mode = "generate"
    /\ main \in Hierarchies
    /\ mainID = Len(main)
    /\ scratch = <<>> /\ scratchID = 0
    /\ pc = "idle" /\ opt = NoOpt /\ genDB = "undefined"
    /\ todo = <<>> /\ filePaths = <<>>
    /\ out = NoOut /\ pre = <<>>
    /\ pass = 1
    /\ issued = 0..(Len(main) - 1) /\ issuedSince = issued
    /\ hooks = 0
    /\ facFile = "none" /\ facDB = "none"
    /\ testFile = "none" /\ testDB = "none"
    /\ invalid = 0
    /\ lintResults = <<>> /\ invalidCode = <<>> /\ logged = <<>>
    /\ query = <<>> /\ found = <<>>

\* The kinds that a caller of findByName names; "any" when it names none.
FindKinds == {"any", "ModuleClass", "ClassMethod"}

\* main.findByName(q, kind)
FindByName(q, kind) ==
    /\ pc = "idle"
    /\ query' = q
    /\ found' = findByName(main, q, kind)
    /\ EndWith("findByName", "none", <<>>, kind)
    /\ pre' = main
    /\ UNCHANGED <<main, mainID, scratch, scratchID, cfg, mode, opt, genDB, todo, filePaths,
                   pass, issued, issuedSince, hooks, facFile, facDB, testFile, testDB, invalid, lintResults, invalidCode, logged>>

NextFind ==
    \/ \E q \in Queries, kind \in FindKinds : FindByName(q, kind)
    \/ Return

SpecFind == InitFind /\ [][NextFind]_vars

-----------------------------------------------------------------------------
(* The grouping queries, on a main store that holds records of several     *)
(* kinds, access levels and origins.                                       *)

\* records in the store that the grouping queries read
MaxRows == 2

GroupKinds ==
    {"ModuleClass", "ModuleFunction", "ModuleVariable", "VirtualExternal",
     "VirtualTypedef"}

Accesses == {"public", "protected", "private"}

\* A record of file A as the doc factory and the resolver leave it.
RowDoc(kind, access, builtin, interface) ==
    [NewDoc(0, "A", kind, <<"F">>, <<"A", "~", "F">>, <<"A">>, 1)
        EXCEPT !.access = access, !.builtinVirtual = builtin, !.interface = interface]

Rows ==
    {RowDoc(k, a, b, i) : k \in GroupKinds, a \in Accesses, b \in BOOLEAN,
                          i \in BOOLEAN} \
    {RowDoc(k, a, b, TRUE) : k \in GroupKinds \ {"ModuleClass"}, a \in Accesses,
                             b \in BOOLEAN}

Tables == {Numbered(l) : l \in UNION {[1..n -> Rows] : n \in 0..MaxRows}}

InitGroup ==
    /\ cfg = Config(FALSE, Files, {}, Files, {})
    /\ mode = "generate"
    /\ main \in Tables
    /\ mainID = Len(main)
    /\ issued = 0..(Len(main) - 1) /\ issuedSince = issued
    /\ scratch = <<>> /\ scratchID = 0
    /\ pc = "idle" /\ opt = NoOpt /\ genDB = "undefined"
    /\ todo = <<>> /\ filePaths = <<>>
    /\ out = NoOut /\ pre = <<>>
    /\ pass = 1
    /\ hooks = 0
    /\ facFile = "none" /\ facDB = "none"
    /\ testFile = "none" /\ testDB = "none"
    /\ invalid = 0
    /\ lintResults = <<>> /\ invalidCode = <<>> /\ logged = <<>>
    /\ query = <<>> /\ found = <<>>

\* A query on the main store: it changes no store; query holds its arguments
\* and found what it returns.
Query(op, args, result) ==
    /\ pc = "idle"
    /\ query' = args
    /\ found' = result
    /\ EndWith(op, "none", <<>>, "none")
    /\ pre' = main
    /\ UNCHANGED <<main, mainID, scratch, scratchID, cfg, mode, opt, genDB, todo, filePaths,
                   pass, issued, issuedSince, hooks, facFile, facDB, testFile, testDB, invalid, lintResults, invalidCode, logged>>

\* main.findAccessDocs()
FindAccessDocs == Query("findAccessDocs", <<>>, findAccessDocs(main))

\* main.findIdentifierKindDocs()
FindIdentifierKindDocs ==
    Query("findIdentifierKindDocs", <<>>, findIdentifierKindDocs(main))

\* main.find()
FindEvery == Query("find", <<>>, findAll(main))

NextGroup ==
    \/ FindAccessDocs
    \/ FindIdentifierKindDocs
    \/ FindEvery
    \/ Return

SpecGroup == InitGroup /\ [][NextGroup]_vars

-----------------------------------------------------------------------------
(* Source coverage, on a main store that holds documented and undocumented *)
(* records of two files.                                                   *)

\* records of one file that are documented, and that are undocumented
MaxCovered == 5

CoverageKinds ==
    <<"ClassMember", "ClassMethod", "ClassProperty", "ModuleAssignment", "ModuleClass",
      "ModuleFunction", "ModuleVariable">>

\* The records of file f: its module-file record when it has one, then d
\* documented and u undocumented records of the kinds that count, in turn.
FileRows(f, hasFile, d, u) ==
    Optional(hasFile, NewDoc(0, f, "ModuleFile", <<f>>, <<f>>, <<>>, 1))
    \o [i \in 1..(d + u) |->
           [NewDoc(0, f, CoverageKinds[(i % Len(CoverageKinds)) + 1], <<"F">>,
                   <<f, "~", "F">>, <<f>>, 1) EXCEPT !.undocument = (i > d)]]

CoverageTables ==
    {Numbered(FileRows("A", h, da, ua) \o FileRows("B", h, db, ub)) :
        h \in BOOLEAN, da \in 0..MaxCovered, ua \in 0..MaxCovered,
        db \in 0..MaxCovered, ub \in 0..MaxCovered}

InitCoverage ==
    /\ cfg = Config(FALSE, Files, {}, Files, {})
    /\ mode = "generate"
    /\ main \in CoverageTables
    /\ mainID = Len(main)
    /\ issued = 0..(Len(main) - 1) /\ issuedSince = issued
    /\ scratch = <<>> /\ scratchID = 0
    /\ pc = "idle" /\ opt = NoOpt /\ genDB = "undefined"
    /\ todo = <<>> /\ filePaths = <<>>
    /\ out = NoOut /\ pre = <<>>
    /\ pass = 1
    /\ hooks = 0
    /\ facFile = "none" /\ facDB = "none"
    /\ testFile = "none" /\ testDB = "none"
    /\ invalid = 0
    /\ lintResults = <<>> /\ invalidCode = <<>> /\ logged = <<>>
    /\ query = <<>> /\ found = <<>>

\* main.getSourceCoverage({ filePath: q, includeFiles }); q is "all" when the
\* caller gives no filePath.
GetSourceCoverage(q, includeFiles) ==
    Query("getSourceCoverage", <<q, includeFiles>>,
          getSourceCoverage(main, IF q = "all" THEN {} ELSE {q}, includeFiles))

NextCoverage ==
    \/ \E q \in Files \cup {"all"}, includeFiles \in BOOLEAN :
          GetSourceCoverage(q, includeFiles)
    \/ Return

SpecCoverage == InitCoverage /\ [][NextCoverage]_vars

-----------------------------------------------------------------------------
(* Dependent files, on a main store that holds resolved module-file        *)
(* records.                                                                *)

\* module-file records in the store
MaxFileDocs == 2

\* paths in a record's list of dependent file paths
MaxDependent == 2

\* paths in the output list that the caller supplies
MaxOutput == 1

\* the lists of at most n file paths
PathLists(n) == UNION {[1..k -> Files] : k \in 0..n}

\* The module-file record of file f after the resolver wrote deps into it.
FileDoc(f, deps) == [NewDoc(0, f, "ModuleFile", <<f>>, <<f>>, <<>>, 1) EXCEPT !.deps = deps]

DependentTables ==
    UNION {{Numbered(t) : t \in [1..n -> {FileDoc(f, d) : f \in Files,
                                                         d \in PathLists(MaxDependent)}]}
           : n \in 0..MaxFileDocs}

InitDependent ==
    /\ cfg = Config(FALSE, Files, {}, Files, {})
    /\ mode = "generate"
    /\ main \in DependentTables
    /\ mainID = Len(main)
    /\ issued = 0..(Len(main) - 1) /\ issuedSince = issued
    /\ scratch = <<>> /\ scratchID = 0
    /\ pc = "idle" /\ opt = NoOpt /\ genDB = "undefined"
    /\ todo = <<>> /\ filePaths = <<>>
    /\ out = NoOut /\ pre = <<>>
    /\ pass = 1
    /\ hooks = 0
    /\ facFile = "none" /\ facDB = "none"
    /\ testFile = "none" /\ testDB = "none"
    /\ invalid = 0
    /\ lintResults = <<>> /\ invalidCode = <<>> /\ logged = <<>>
    /\ query = <<>> /\ found = <<>>

\* main.findDependentFiles(p, output)
FindDependentFiles(p, output) ==
    Query("findDependentFiles", <<p, output>>, findDependentFiles(main, p, output))

NextDependent ==
    \/ \E p \in Files, output \in PathLists(MaxOutput) : FindDependentFiles(p, output)
    \/ Return

SpecDependent == InitDependent /\ [][NextDependent]_vars

-----------------------------------------------------------------------------
(* insert and merge with a value that is no DocDB.                         *)

\* records in the store
MaxHeld == 2

\* the largest id of a DocObject handed in
MaxGivenID == 1

\* The DocObjects that a caller hands in.
GivenDocs ==
    {[typeof |-> "object", doc |-> DocFor(f, "ModuleFile", id, 0)]
        : f \in Files, id \in 0..MaxGivenID}

\* main.insert(v) and main.merge(v): r is what the method makes of the table.
Given(op, v, r) ==
    /\ pc = "idle"
    /\ Len(r.db) <= MaxHeld
    /\ main' = r.db
    /\ query' = v
    /\ EndWith(op, r.raised, <<>>, v.typeof)
    /\ pre' = main
    /\ UNCHANGED <<mainID, scratch, scratchID, cfg, mode, opt, genDB, todo, filePaths, pass,
                   issued, issuedSince, hooks, facFile, facDB, testFile, testDB, invalid, lintResults, invalidCode, logged,
                   found>>

InsertValue(v) == Given("insert", v, insert("main", main, v))

MergeValue(v) == Given("merge", v, merge("main", main, v))

NextValue ==
    \/ \E v \in NonObjects \cup GivenDocs : InsertValue(v)
    \/ \E v \in NonObjects \cup GivenDocs : MergeValue(v)
    \/ \E S \in GivenStores : Insert(S)
    \/ Return

SpecValue == InitStore /\ [][NextValue]_vars

-----------------------------------------------------------------------------
(* insertStaticDoc on the main store, on a store with an eventbus and no    *)
(* config, and on a store with neither.                                     *)

\* records admitted in a run
MaxAdmitted == 3

\* docDB.insertStaticDoc(staticDoc, docFilter, reset) on store s, with the
\* static doc that the doc factory has built for file f.
AdmitStaticDoc(s, f, docFilter, resetArg) ==
    /\ pc = "idle"
    /\ pass < MaxAdmitted
    /\ LET doc == DocFor(f, NextKind(Docs(World, s), f), getCurrentID(World, s), 0)
       IN  /\ Install(insertStaticDoc(getCurrentIDAndIncrement(World, s), s, doc,
                                      docFilter))
           /\ found' = insertStaticDocSteps(s, doc, docFilter, resetArg)
    /\ query' = <<s, resetArg>>
    /\ EndWith("insertStaticDoc", "none", <<>>, docFilter)
    /\ pre' = main
    /\ pass' = pass + 1
    /\ UNCHANGED <<cfg, mode, opt, genDB, todo, filePaths>>

NextAdmit ==
    \/ \E s \in {"main", "scratch", "temp"}, f \in Files, fl \in DocFilters,
          r \in BOOLEAN : AdmitStaticDoc(s, f, fl, r)
    \/ Return

\* The config has includeSource on or off (off is the default).
InitAdmit ==
    /\ main = <<>> /\ mainID = 0
    /\ mode = "generate"
    /\ cfg \in {[c EXCEPT !.includeSource = b] : c \in {Config(a, Files, {}, Files, {}) : a \in BOOLEAN},
                                                b \in BOOLEAN}
    /\ NoCall

SpecAdmit == InitAdmit /\ [][NextAdmit]_vars

-----------------------------------------------------------------------------
(* Properties. A call's outcome is read in the state where pc = "done":    *)
(* pre holds the main store's records from before the call, opt the call's *)
(* options, out what it returned or threw.                                 *)

OfPaths(db, ps) == SelectSeq(db, LAMBDA r : r.filePath \in ps)

UniqueIds(db) == \A i, j \in 1..Len(db) : i # j => db[i].id # db[j].id

HasFile(db, f) == \E i \in 1..Len(db) : db[i].filePath = f

\* The module-file record of file f in db lists g as a dependent file.
Lists(db, f, g) ==
    \E i \in 1..Len(db) :
        db[i].kind = "ModuleFile" /\ db[i].filePath = f /\ g \in Range(db[i].deps)

Regenerated == pc = "done" /\ out.op = "regenerate"

\* C1: after M.removeAndInsertDB(S) with another store S, the records of M
\* with a file path of S are exactly the records of S, the records of M with
\* another file path are those M held before, in the same order, and the
\* call returns the distinct file paths of S.
C1_RemoveAndInsertReplaces ==
    (pc = "done" /\ out.op = "removeAndInsertDB") =>
        LET paths == Range(Distinct(scratch))
        IN  /\ OfPaths(main, paths) = findAll(scratch)
            /\ OfPaths(main, Files \ paths) = OfPaths(pre, Files \ paths)
            /\ out.paths = Distinct(scratch)

\* A main store with records of A and B has taken a store with records of A only.
C1_ReplacedAOfAB ==
    /\ pc = "done" /\ out.op = "removeAndInsertDB"
    /\ HasFile(pre, "A") /\ HasFile(pre, "B")
    /\ scratch # <<>> /\ out.paths = <<"A">>
    /\ OfPaths(main, {"B"}) = OfPaths(pre, {"B"})

\* C2: in every state that full generations and regenerations reach, the
\* records of one file in the main store all come from one generation pass.
C2_OnePassPerFile ==
    \A i, j \in 1..Len(main) :
        main[i].filePath = main[j].filePath => main[i].gen = main[j].gen

\* C3: in every state that generations and regenerations reach, no two
\* records of one store have the same id.
C3_UniqueIds == UniqueIds(main) /\ UniqueIds(scratch)

\* C4 (as amended): the id that the main store assigns next (its counter) is
\* greater than every id it has assigned since it was constructed or last
\* reset; remove does not change the counter, so an id is not assigned twice
\* between two resets.
C4_IdsIncreaseSinceReset == \A i \in issuedSince : i < mainID

\* Ids were assigned, a record was removed, and another id was assigned.
C4_AssignedAfterRemove ==
    /\ pc = "done" /\ out.op = "insertStaticDoc"
    /\ Cardinality(issuedSince) >= 2
    /\ Len(main) < Cardinality(issuedSince)

\* C4 (as stated): the id that the main store assigns next is greater than
\* every id it has ever assigned.
C4_IdsIncreaseAlways == \A i \in issued : i < mainID

\* C5: insert(X) and merge(X) on the store X itself raise an error and leave
\* the records of X as they were.
C5_SelfInsertRaises ==
    (pc = "done" /\ out.op \in {"insert", "merge"} /\ out.arg = "self") =>
        out.raised # "none" /\ main = pre

C7_ThrowAbortsBeforeReplace ==
    [][(/\ pc' = "done" /\ out'.op = "regenerate"
        /\ opt'.handleError = "throw"
        /\ out'.raised \in {"ParseError", "TraversalError"}) =>
           /\ pc \in {"primary", "dependents"}
           /\ main' = pre']_vars

\* A dependent file failed under the throw policy after the changed file
\* had been generated into the scratch store.
C7_DependentFailed ==
    /\ Regenerated /\ opt.handleError = "throw"
    /\ out.raised \in {"ParseError", "TraversalError"}
    /\ HasFile(scratch, opt.filePath)
    /\ pre # <<>> /\ main = pre

\* C8: a regeneration that ends by raising an error leaves the main store's
\* records as they were before the call.
C8_RaiseLeavesMainUnchanged ==
    (Regenerated /\ out.raised # "none") => main = pre

\* The member lookup of stage 4 as the documentation states it: the members
\* named n of the first class of chains that has one.
RECURSIVE FirstMembers(_, _, _)
FirstMembers(db, chains, n) ==
    IF chains = <<>> THEN <<>>
    ELSE LET ms == find(SelectSeq(db, LAMBDA r : r.memberof = Head(chains) /\ r.name = n))
         IN  IF ms # <<>> THEN ms ELSE FirstMembers(db, Tail(chains), n)

\* C9: findByName of Parent#child or Parent.child, when nothing matches by
\* longname, by name or by suffix and Parent is a class with an extends
\* chain, returns the members named child of the first class of the chain
\* that has one.
C9_InheritedMember ==
    (pc = "done" /\ out.op = "findByName" /\ matched(query) # 0) =>
        LET m == matched(query)
            childName == SubSeq(query, m + 1, Len(query))
            parentDocs == findByName(main, SubSeq(query, 1, m - 1), "ModuleClass")
            direct == find(SelectSeq(main, LAMBDA r : \/ r.longname = query
                                            \/ r.name = query
                                            \/ regexTest(query, r.longname)))
        IN  (direct = <<>> /\ parentDocs # <<>>) =>
                found = FirstMembers(main, parentDocs[1].chains, childName)

\* C10: insertStaticDoc with a filter that rejects the record inserts
\* nothing and does not invoke onHandleDocObject.
C10_RejectInsertsNothing ==
    (pc = "done" /\ out.op = "insertStaticDoc" /\ out.arg = "reject") =>
        main = pre /\ hooks = 0


\* C11: unless outputASTData is configured, no record of the main store or
\* of a scratch store carries its AST node once insertStaticDoc has returned.
C11_NoNodeKept ==
    ~cfg.outputASTData =>
        /\ \A i \in 1..Len(main) : ~main[i].node
        /\ \A i \in 1..Len(scratch) : ~scratch[i].node


\* The one-to-one maps from the positions of a result of n records to the
\* positions of the n matching records.
Matchings(n) == {p \in [1..n -> 1..n] : \A i, j \in 1..n : i # j => p[i] # p[j]}

NoBuiltin(ds) == \A i \in 1..Len(ds) : ~ds[i].builtinVirtual

Builtins(ds) == SelectSeq(ds, LAMBDA r : r.builtinVirtual)

Expected(q) ==
    {i \in 1..Len(main) : /\ main[i].kind \in s_SOURCE_COVERAGE_KIND
                          /\ main[i].filePath \in QueryFiles(q)}

\* C14: getSourceCoverage returns percent = floor(10000 * documented /
\* expected) / 100 (here in hundredths), expected being the number of
\* records of the seven kinds, of the given file when one is given, and
\* documented the number of those without the undocument flag; percent is 0
\* when expected is 0.
C14_CoveragePercent ==
    (pc = "done" /\ out.op = "getSourceCoverage") =>
        LET expected == Cardinality(Expected(query[1]))
            documented == Cardinality({i \in Expected(query[1]) : ~main[i].undocument})
        IN  /\ found.total.expectedCount = expected
            /\ found.total.actualCount = documented
            /\ expected = 0 => found.total.percent = 0
            /\ expected > 0 =>
                   /\ found.total.percent * expected <= 10000 * documented
                   /\ 10000 * documented < (found.total.percent + 1) * expected

\* 7 documented of 10 expected records: 70 percent.
C14_SevenOfTen ==
    /\ pc = "done" /\ out.op = "getSourceCoverage"
    /\ found.total.expectedCount = 10 /\ found.total.actualCount = 7
    /\ found.total.percent = 7000
    /\ Len(main) > 10


\* C15: the mode that the main store reports never changes: no step of the
\* store's operations takes it from one value to another.
C15_ModeNeverChanges == [][mode' = mode]_vars


\* A generation call on a file that passes the filters has ended, and the
\* parser rejected the file.
ParserFailed ==
    /\ pc = "done" /\ out.op = "generate"
    /\ opt.filePath \notin cfg.excluded
    /\ ~query[1]

\* C16: when the parser fails in a generation call, under the log policy one
\* failure descriptor is queued, no record is inserted into the target store
\* and the call returns no result; under the throw policy the parser's error
\* reaches the caller and nothing is queued or inserted.
C16_ParserFailure ==
    ParserFailed =>
        IF opt.handleError = "log"
        THEN /\ out.raised = "none"
             /\ invalid = 1
             /\ main = pre
             /\ found = "undefined"
        ELSE /\ out.raised = "ParseError"
             /\ invalid = 0
             /\ main = pre


\* A generation call into the main store has ended in which the parser
\* accepted the file and the doc factory threw on the node at position
\* query[2] of the walk.
HandlerFailed ==
    /\ pc = "done" /\ out.op = "generate"
    /\ opt.filePath \notin cfg.excluded
    /\ query[1]
    /\ query[2] \in 1..Len(AstOf(opt.filePath))

\* The kinds of the records that the call has added to the main store, in
\* the order of their insertion.
Fed == [i \in 1..(Len(main) - Len(pre)) |-> main[Len(pre) + i].kind]

\* a sequence without its k-th member
Without(seq, k) == SubSeq(seq, 1, k - 1) \o SubSeq(seq, k + 1, Len(seq))

\* C17: when the doc factory fails on a node of the walk, under the log
\* policy one diagnostic is queued and every other node of the walk is fed to
\* the factory; under the throw policy the walk ends at the failing node and
\* the error reaches the caller.
C17_HandlerFailure ==
    HandlerFailed =>
        /\ SubSeq(main, 1, Len(pre)) = pre
        /\ \A i \in (Len(pre) + 1)..Len(main) : main[i].filePath = opt.filePath
        /\ IF opt.handleError = "log"
           THEN /\ out.raised = "none"
                /\ invalid = 1
                /\ Fed = Without(AstOf(opt.filePath), query[2])
           ELSE /\ out.raised = "TraversalError"
                /\ invalid = 0
                /\ Fed = SubSeq(AstOf(opt.filePath), 1, query[2] - 1)

\* Under the log policy the factory threw on the first node and the second
\* node was fed to it.
C17_LogFedSecondNode ==
    /\ HandlerFailed
    /\ opt.handleError = "log"
    /\ query[2] = 1
    /\ Fed = <<"ModuleClass">>


\* A generation call for file opt.filePath, in the file or the test variant,
\* has ended.
FilterCall == pc = "done" /\ out.op \in {"generateFileDocData", "generateTestDocData"}

\* The relative path matches an include pattern and no exclude pattern of the
\* variant's filters.
PassesFilters ==
    IF out.op = "generateFileDocData"
    THEN opt.filePath \in cfg.included /\ opt.filePath \notin cfg.excluded
    ELSE opt.filePath \in cfg.test.included /\ opt.filePath \notin cfg.test.excluded

\* C18: a generation call hands the file to the parser if and only if its
\* path matches an include pattern and no exclude pattern; for every other
\* path the call returns nothing, throws nothing and leaves the target store
\* and the invalid-code queue as they were.
C18_ProcessedIffFiltersPass ==
    FilterCall =>
        /\ query[3] <=> PassesFilters
        /\ ~PassesFilters =>
               /\ found = "undefined"
               /\ out.raised = "none"
               /\ main = pre /\ invalid = 0

\* A test file that matches an include pattern and an exclude pattern of
\* config.test was skipped, and a source file that matches an include pattern
\* only was parsed.
C18_SkippedExcludedTest ==
    /\ FilterCall /\ out.op = "generateTestDocData"
    /\ opt.filePath \in cfg.test.included \cap cfg.test.excluded
    /\ opt.filePath \in cfg.included \ cfg.excluded
    /\ ~query[3] /\ found = "undefined"
    /\ main # <<>>


\* The dependent file paths of the module-file records of file p.
DependentPaths(p) ==
    UNION {Range(main[i].deps) : i \in {j \in 1..Len(main) : /\ main[j].kind = "ModuleFile"
                                                              /\ main[j].filePath = p}}

NoDuplicates(seq) == \A i, j \in 1..Len(seq) : i # j => seq[i] # seq[j]

\* C19: findDependentFiles(p, output) returns the dependent file paths of the
\* module-file records of p and no other path, each path once, whatever the
\* output list holds.
C19_UnionEachPathOnce ==
    (pc = "done" /\ out.op = "findDependentFiles") =>
        /\ Range(found) = DependentPaths(query[1])
        /\ NoDuplicates(found)

\* With no path in the output list, findDependentFiles returns the dependent
\* file paths of the module-file records of p, each path once.
C19_UnionIntoEmptyOutput ==
    (pc = "done" /\ out.op = "findDependentFiles" /\ query[2] = <<>>) =>
        /\ Range(found) = DependentPaths(query[1])
        /\ NoDuplicates(found)


\* C20: when reset returns, the main store holds no record and its id counter
\* is zero, so that 0 is the id it hands out next.
C20_ResetEmptiesAndZeroes ==
    (pc = "done" /\ out.op = "reset") =>
        /\ main = <<>>
        /\ getCurrentID(World, "main") = 0
        /\ getCurrentID(getCurrentIDAndIncrement(World, "main"), "main") = 1

\* reset has returned on a store that held records and had assigned more ids
\* than it held records.
C20_ResetAfterRemove ==
    /\ pc = "done" /\ out.op = "reset"
    /\ pre # <<>>
    /\ Cardinality(issued) > Len(pre)
    /\ main = <<>> /\ mainID = 0


\* C21: after insert(S) into the main store, S holds the records it held
\* before the call, every field as it was.
C21_InsertLeavesSourceUnchanged ==
    (pc = "done" /\ out.op = "insert" /\ out.arg = "other") => scratch = query


\* insert or merge has ended on a value that is no object.
NonObjectGiven ==
    /\ pc = "done" /\ out.op \in {"insert", "merge"}
    /\ out.arg \in {"string", "number", "boolean", "undefined"}

\* C22: insert and merge of a string, a number, a boolean or undefined throw
\* to their caller and leave the records of the store as they were.
C22_NonObjectRaises ==
    NonObjectGiven => out.raised = "ReferenceError" /\ main = pre

\* merge(undefined) has thrown on a store that holds records.
C22_MergeUndefinedRaised ==
    /\ NonObjectGiven /\ out.op = "merge" /\ out.arg = "undefined"
    /\ out.raised = "ReferenceError"
    /\ Len(main) = MaxHeld


\* The steps of a regeneration follow each other in the order BuildPrimary,
\* BuildDependent, ReplaceInStore, ResolveConstrained: the dependents are
\* built only with dependency propagation on, and the resolver runs only
\* with resolution on, right after the replacement, over the paths that the
\* replacement returned.
StepOrder ==
    /\ pc = "idle" => pc' \in {"idle", "primary", "done"}
    /\ pc = "primary" => pc' \in {"dependents", "replace", "done"}
    /\ pc = "dependents" => pc' \in {"dependents", "replace", "done"}
    /\ pc = "replace" => pc' \in {"resolve", "done"}
    /\ pc = "resolve" => pc' = "done"
    /\ pc' = "dependents" => opt.dependent
    /\ (pc = "replace" /\ pc' = "done" /\ out'.raised = "none") => ~opt.resolve
    /\ pc' = "resolve" => /\ pc = "replace" /\ opt.resolve
                          /\ filePaths' = Distinct(scratch)
    /\ pc = "resolve" =>
           \/ main' = main
           \/ \E d \in DepChoices : main' = resolve(main, Range(filePaths), d)

\* C24: the steps of a regeneration occur in order, and no step before
\* ReplaceInStore changes the main store.
C24_OrderedAndMainUntouchedWhileBuilding ==
    [][/\ StepOrder
       /\ pc \in {"primary", "dependents"} => main' = main]_vars

\* The order of the steps alone.
C24_StepsInOrder == [][StepOrder]_vars


\* A regeneration call is running or has just ended.
Regenerating == pc \in {"primary", "dependents", "replace", "resolve"} \/ Regenerated

\* Record r of the main store was in it before the running call.
Old(r) ==
    \E i \in 1..Len(pre) : /\ pre[i].id = r.id /\ pre[i].gen = r.gen
                           /\ pre[i].filePath = r.filePath /\ pre[i].kind = r.kind

\* The main store holds a record of file f from before the running call.
HoldsOld(f) == \E i \in 1..Len(main) : main[i].filePath = f /\ Old(main[i])

\* The main store holds a record of file f that the running call has made.
HoldsNew(f) == \E i \in 1..Len(main) : main[i].filePath = f /\ ~Old(main[i])

\* C25: during and after a regeneration with dependency propagation, the
\* main store never holds new records of the changed file together with old
\* records of a dependent file that the call has regenerated into its
\* scratch store.
C25_ChangedAndDependentsTogether ==
    (Regenerating /\ opt.dependent) =>
        \A g \in Files \ {opt.filePath} :
            (HasFile(scratch, g) /\ HoldsNew(opt.filePath)) => ~HoldsOld(g)

\* The same when no parse or traversal failure was logged during the call.
C25_TogetherWithoutFailure ==
    (Regenerating /\ opt.dependent /\ invalid = 0) =>
        \A g \in Files \ {opt.filePath} :
            (HasFile(scratch, g) /\ HoldsNew(opt.filePath)) => ~HoldsOld(g)


\* C26: a regeneration that returns, with resolution and dependency
\* propagation on, returns the changed path followed by the dependent files
\* that the main store lists for it after the resolver has run; with
\* resolution off it returns the distinct file paths of the scratch store,
\* which is what removeAndInsertDB returned.
C26_ReturnedList ==
    (Regenerated /\ out.raised = "none") =>
        /\ (opt.resolve /\ opt.dependent) =>
               out.paths = <<opt.filePath>> \o findDependentFiles(main, opt.filePath, <<>>)
        /\ ~opt.resolve => out.paths = Distinct(scratch)

\* The resolver has made B a dependent file of A during the call: the call
\* returns A and B though it has regenerated A only.
C26_ReturnsNewDependent ==
    /\ Regenerated /\ out.raised = "none"
    /\ opt.resolve /\ opt.dependent /\ opt.filePath = "A"
    /\ ~Lists(pre, "A", "B")
    /\ ~HasFile(scratch, "B")
    /\ out.paths = <<"A", "B">>


\* C27: a regeneration of A with dependency propagation, on a main store
\* that lists B as a dependent file of A and C as a dependent file of B,
\* regenerates C and replaces its records.
C27_TransitiveRegenerated ==
    (/\ Regenerated /\ out.raised = "none" /\ invalid = 0
     /\ opt.filePath = "A" /\ opt.dependent
     /\ Lists(pre, "A", "B") /\ Lists(pre, "B", "C")) =>
        HasFile(scratch, "C") /\ ~HoldsOld("C")

\* The same for the files that the module-file record of A lists itself.
C27_ListedRegenerated ==
    (/\ Regenerated /\ out.raised = "none" /\ invalid = 0
     /\ opt.filePath = "A" /\ opt.dependent) =>
        \A g \in Sources : Lists(pre, "A", g) => HasFile(scratch, g) /\ ~HoldsOld(g)


\* insertStaticDoc has returned: found holds its steps, query the store and
\* whether the static doc was to be reset.
Admitted == pc = "done" /\ out.op = "insertStaticDoc" /\ query # <<>>

StepNames(steps) == [i \in 1..Len(steps) |-> steps[i].step]

\* C28 (as amended): insertStaticDoc calls the filter callback when it is
\* given one, then the hook onHandleDocObject when the store has an eventbus,
\* then the reset of the static doc unless the caller disabled it, then
\* filterDoc, then the insertion, each at most once and in this order; the
\* hook sees the record with its AST node.
C28_StepsInOrderWhenPresent ==
    Admitted =>
        /\ StepNames(found) =
               (IF out.arg # "none" THEN <<"docFilter">> ELSE <<>>)
               \o (IF HasEventbus(query[1]) THEN <<"onHandleDocObject">> ELSE <<>>)
               \o (IF query[2] THEN <<"reset">> ELSE <<>>)
               \o <<"filterDoc", "insert">>
        /\ \A i \in 1..Len(found) : found[i].step = "onHandleDocObject" => found[i].node

\* The main store has admitted a record through a filter: all five steps
\* were taken, and the record was inserted without the node that the hook saw.
C28_AllFiveSteps ==
    /\ Admitted /\ query[1] = "main" /\ ~cfg.outputASTData
    /\ Len(found) = 5
    /\ found[2].step = "onHandleDocObject" /\ found[2].node
    /\ found[5].step = "insert" /\ ~found[5].node

\* C28 (as stated): for every record that insertStaticDoc accepts, the hook
\* is invoked once, then the static doc is reset, then the record is
\* stripped and inserted.
C28_HookAndResetAlways ==
    Admitted =>
        SelectSeq(StepNames(found), LAMBDA n : n # "docFilter")
            = <<"onHandleDocObject", "reset", "filterDoc", "insert">>


\* C29: a record that the main store admits through insertStaticDoc is
\* stored with its raw content when includeSource is configured and with
\* empty content when it is not.
C29_ContentKeptWhenConfigured ==
    (Admitted /\ query[1] = "main") =>
        /\ Len(main) = Len(pre) + 1
        /\ LET r == main[Len(main)]
           IN  r.content <=> (cfg.includeSource /\ r.kind = "ModuleFile")


\* The stages of findByName as documented: the records of the kind asked for
\* whose longname is the name, whose name is the name, whose longname ends
\* with "~" followed by the name, and the members named child of the first
\* ancestor of Parent that has one.
EndsWith(longname, suffix) ==
    /\ Len(longname) >= Len(suffix)
    /\ SubSeq(longname, Len(longname) - Len(suffix) + 1, Len(longname)) = suffix
StageLongname(db, name, kind) ==
    find(SelectSeq(db, LAMBDA r : r.longname = name /\ kindIs(r, kind)))
StageName(db, name, kind) ==
    find(SelectSeq(db, LAMBDA r : r.name = name /\ kindIs(r, kind)))
StageSuffix(db, name, kind) ==
    find(SelectSeq(db, LAMBDA r : EndsWith(r.longname, <<"~">> \o name) /\ kindIs(r, kind)))
StageInherited(db, name) ==
    LET m == matched(name)
    IN  IF m = 0 THEN <<>>
        ELSE LET parentDocs == StageLongname(db, SubSeq(name, 1, m - 1), "ModuleClass")
                                   \o StageName(db, SubSeq(name, 1, m - 1), "ModuleClass")
                                   \o StageSuffix(db, SubSeq(name, 1, m - 1), "ModuleClass")
             IN  IF parentDocs = <<>> THEN <<>>
                 ELSE FirstMembers(db, parentDocs[1].chains, SubSeq(name, m + 1, Len(name)))
FirstStage(db, name, kind) ==
    IF StageLongname(db, name, kind) # <<>> THEN StageLongname(db, name, kind)
    ELSE IF StageName(db, name, kind) # <<>> THEN StageName(db, name, kind)
    ELSE IF StageSuffix(db, name, kind) # <<>> THEN StageSuffix(db, name, kind)
    ELSE StageInherited(db, name)

\* C30: findByName returns the result of the first non-empty stage among the
\* exact longname matches, the exact name matches, the matches of the suffix
\* "~" + name (each restricted to the kind when one is given) and the
\* inherited lookup; the result is empty exactly when every stage is empty.
C30_FirstNonEmptyStage ==
    (pc = "done" /\ out.op = "findByName") =>
        found = FirstStage(main, query, out.arg)

\* What holds of the first two stages: a call returns all exact longname
\* matches of the kind when there are any, otherwise all exact name matches
\* of the kind when there are any.
C30_ExactStages ==
    (pc = "done" /\ out.op = "findByName") =>
        /\ StageLongname(main, query, out.arg) # <<>> =>
               found = StageLongname(main, query, out.arg)
        /\ (StageLongname(main, query, out.arg) = <<>> /\ StageName(main, query, out.arg) # <<>>) =>
               found = StageName(main, query, out.arg)

\* A call of the shape Parent.child whose only non-empty stage, as
\* documented, is none, and which returns a record all the same.
C30_DotMatchesAnySeparator ==
    ~(/\ pc = "done" /\ out.op = "findByName"
      /\ FirstStage(main, query, out.arg) = <<>>
      /\ found # <<>>)


-----------------------------------------------------------------------------
(* The lint logger: its onHandleDocObject is what insertStaticDoc invokes  *)
(* on a store with an eventbus.                                             *)

\* warnings that the lint logger holds
MaxLint == 2

\* The parameter names of the documentation and of the code.
DocParamLists == {<<>>, << <<"a">> >>, << <<"b">> >>, << <<"a">>, <<"o", ".", "p">> >>,
                  << <<"a">>, <<"b">> >>}
CodeParamLists == {<<>>, << <<"a">> >>, << <<"*">> >>, << <<"a">>, <<"b">> >>}

\* A DocObject of file A as the doc factory hands it to insertStaticDoc.
LintDoc(kind, undocument, node, params) ==
    [params |-> params] @@
    [NewDoc(0, "A", kind, <<"m">>, <<"A", "~", "m">>, <<"A">>, 0)
        EXCEPT !.undocument = undocument, !.node = node]
LintDocs ==
    {LintDoc(k, u, n, p) : k \in {"ClassMethod", "ModuleFunction", "ModuleClass"},
                           u \in BOOLEAN, n \in BOOLEAN, p \in DocParamLists}

\* LintDocLogger._getParamsFromDoc
includes(v, c) == \E i \in 1..Len(v) : v[i] = c
getParamsFromDoc(doc) ==
    SelectSeq(SelectSeq(doc.params, LAMBDA v : ~includes(v, ".")), LAMBDA v : ~includes(v, "["))

\* LintDocLogger._match
match(codeParams, docParams) ==
    /\ Len(codeParams) = Len(docParams)
    /\ \A i \in 1..Len(codeParams) :
           codeParams[i] = <<"*">> \/ codeParams[i] = docParams[i]

\* The warning that onHandleDocObject stores.
lintMessage(doc) == [name |-> doc.name, filePath |-> doc.filePath, kind |-> doc.kind]

\* A lint logger that does not look at the mode.
onHandleDocObject_anyMode(results, doc, m, codeParams) ==
    IF doc.undocument \/ ~doc.node \/ doc.kind \notin {"ClassMethod", "ModuleFunction"}
    THEN results
    ELSE IF match(codeParams, getParamsFromDoc(doc)) THEN results
    ELSE Append(results, lintMessage(doc))

\* LintDocLogger.onHandleDocObject with ev.data = { docObject: doc, mode: m };
\* codeParams is what the AST plugin reads from doc.node.
onHandleDocObject(results, doc, m, codeParams) ==
    IF m # "generate" \/ doc.undocument \/ ~doc.node
          \/ doc.kind \notin {"ClassMethod", "ModuleFunction"}
    THEN results
    ELSE IF match(codeParams, getParamsFromDoc(doc)) THEN results
    ELSE Append(results, lintMessage(doc))

\* insertStaticDoc(staticDoc) on a store made by 'tjsdoc:system:docdb:create'
\* with { eventbus, mode: m }: the store invokes the hook, and with it the
\* lint logger, and inserts the record.
LintStaticDoc(m, doc, codeParams) ==
    /\ pc = "idle"
    /\ Len(lintResults) < MaxLint
    /\ lintResults' = onHandleDocObject(lintResults, doc, m, codeParams)
    /\ scratch' = Append(scratch, filterDoc("scratch", doc))
    /\ hooks' = hooks + 1
    /\ query' = <<m, doc, codeParams>>
    /\ found' = lintResults
    /\ EndWith("insertStaticDoc", "none", <<>>, "lint")
    /\ pre' = main
    /\ UNCHANGED <<main, mainID, scratchID, cfg, mode, opt, genDB, todo, filePaths, pass,
                   issued, issuedSince, facFile, facDB, testFile, testDB, invalid,
                   invalidCode, logged>>

\* LintDocLogger.logWarnings
LogWarnings ==
    /\ pc = "idle"
    /\ lintResults # <<>>
    /\ logged' = <<"header">> \o lintResults
    /\ lintResults' = <<>>
    /\ query' = <<>>
    /\ found' = lintResults
    /\ EndWith("logWarnings", "none", <<>>, "none")
    /\ pre' = main
    /\ UNCHANGED <<main, mainID, scratch, scratchID, cfg, mode, opt, genDB, todo, filePaths,
                   pass, issued, issuedSince, hooks, facFile, facDB, testFile, testDB,
                   invalid, invalidCode>>

NextLint ==
    \/ \E m \in Modes, doc \in LintDocs, codeParams \in CodeParamLists :
           LintStaticDoc(m, doc, codeParams)
    \/ LogWarnings
    \/ Return

SpecLint == Init /\ [][NextLint]_vars

\* The documented and the coded parameters disagree: in number, or at a
\* position where the code names a parameter and the documentation another.
\* Documented names with a "." or a "[" describe properties and do not count.
Counted(params) == SelectSeq(params, LAMBDA v : \A i \in 1..Len(v) : v[i] \notin {".", "["})
Mismatch(codeParams, params) ==
    \/ Len(codeParams) # Len(Counted(params))
    \/ \E i \in 1..Len(codeParams) :
           codeParams[i] # <<"*">> /\ codeParams[i] # Counted(params)[i]

Linted == pc = "done" /\ out.op = "insertStaticDoc" /\ out.arg = "lint"

\* C31: an insertStaticDoc into a store of mode regenerate adds no lint
\* warning; the lint results change only for a documented ClassMethod or
\* ModuleFunction record with an AST node whose parameters mismatch and which
\* is inserted into a store of mode generate.
C31_LintOnlyInGenerateMode ==
    Linted =>
        /\ query[1] = "regenerate" => lintResults = found
        /\ lintResults # found =>
               /\ query[1] = "generate"
               /\ query[2].kind \in {"ClassMethod", "ModuleFunction"}
               /\ ~query[2].undocument /\ query[2].node
               /\ Mismatch(query[3], query[2].params)

\* A mismatching method record is admitted to a store of mode regenerate
\* while warnings of a generation are held, and none is added.
C31_RegenerateAddsNone ==
    /\ Linted /\ query[1] = "regenerate"
    /\ query[2].kind = "ClassMethod" /\ ~query[2].undocument /\ query[2].node
    /\ Mismatch(query[3], query[2].params)
    /\ found # <<>> /\ lintResults = found


-----------------------------------------------------------------------------
(* The invalid-code logger: diagnostics are queued by addInvalidCode and    *)
(* flushed by logInvalidCode.                                               *)

\* diagnostics that the logger holds
MaxQueued == 2

\* distinct messages of the diagnostics
MaxMessage == 2

\* An error object as typeof and the checks of addInvalidCode see it: absent,
\* or an object whose line and column are numbers or are not.
NoError == [defined |-> FALSE, line |-> "undefined", column |-> "undefined"]
ErrorObjects ==
    {NoError,
     [defined |-> TRUE, line |-> "number", column |-> "number"],
     [defined |-> TRUE, line |-> "undefined", column |-> "undefined"]}

\* The data that the callers of 'tjsdoc:system:invalid:code:add' hand in:
\* code and filePath are strings or absent, node is an object or absent,
\* fatalError is an Error or absent, and no caller sets data.parseError.
InvalidData ==
    [message : 1..MaxMessage, code : BOOLEAN, filePath : BOOLEAN, node : BOOLEAN,
     parserError : ErrorObjects, fatalError : {NoError, [defined |-> TRUE, line |-> "undefined",
                                                         column |-> "undefined"]},
     parseError : {NoError}]

\* InvalidCodeLogger._buildEntry: the label and what the body is built from.
buildEntry(entry, label) ==
    [label |-> label, message |-> entry.message,
     body |-> IF entry.code
              THEN IF entry.node THEN "node"
                   ELSE IF entry.parserError.defined THEN "parserError" ELSE "none"
              ELSE IF entry.parserError.defined THEN "parserError"
                   ELSE IF entry.node THEN "node" ELSE "none"]

\* InvalidCodeLogger._buildEntryDispatch
buildEntryDispatch(entry) ==
    [fatalError |-> entry.fatalError,
     output |-> IF ~entry.fatalError.defined        \* typeof entry.fatalError === 'undefined'
                THEN buildEntry(entry, "warning:")
                ELSE buildEntry(entry, "error:")]

\* An addInvalidCode that makes the parser's error the fatal error.
addInvalidCode_keepError(queue, data) ==
    IF ~data.filePath /\ ~data.code THEN [raised |-> "ReferenceError", queue |-> queue]
    ELSE IF ~data.node /\ ~data.fatalError.defined /\ ~data.parserError.defined
    THEN [raised |-> "ReferenceError", queue |-> queue]
    ELSE LET d == IF /\ data.parserError.defined
                     /\ data.parserError.line # "number" /\ data.parserError.column # "number"
                  THEN [data EXCEPT !.fatalError = data.parserError, !.parserError = NoError]
                  ELSE data
         IN  [raised |-> "none", queue |-> Append(queue, buildEntryDispatch(d))]

\* InvalidCodeLogger.addInvalidCode
addInvalidCode(queue, data) ==
    IF ~data.filePath /\ ~data.code THEN [raised |-> "ReferenceError", queue |-> queue]
    ELSE IF ~data.node /\ ~data.fatalError.defined /\ ~data.parserError.defined
    THEN [raised |-> "ReferenceError", queue |-> queue]
    ELSE LET d == IF /\ data.parserError.defined
                     /\ data.parserError.line # "number" /\ data.parserError.column # "number"
                  THEN [data EXCEPT !.fatalError = data.parseError,   \* data.parseError
                                    !.parserError = NoError]          \* delete data.parserError
                  ELSE data
         IN  [raised |-> "none", queue |-> Append(queue, buildEntryDispatch(d))]

\* What the logger triggers on the eventbus log.
NoOutput == [label |-> "none", message |-> 0, body |-> "none"]
Header(level) == [level |-> level, what |-> "header", output |-> NoOutput]
Emit(level, entry) == [level |-> level, what |-> "output", output |-> entry.output]
EmitError(entry) == [level |-> "error", what |-> "fatalError", output |-> entry.output]

RECURSIVE EmitFatal(_)
EmitFatal(entries) ==
    IF entries = <<>> THEN <<>>
    ELSE <<Emit("error", Head(entries)), EmitError(Head(entries))>> \o EmitFatal(Tail(entries))

\* A logInvalidCode that keeps the queue.
logInvalidCode_keepQueue(queue, resetArg) ==
    LET nonFatalEntries == SelectSeq(queue, LAMBDA e : ~e.fatalError.defined)
        fatalEntries == SelectSeq(queue, LAMBDA e : e.fatalError.defined)
    IN  [logged |-> (IF nonFatalEntries # <<>>
                     THEN <<Header("warn")>>
                              \o [i \in 1..Len(nonFatalEntries) |-> Emit("warn", nonFatalEntries[i])]
                     ELSE <<>>)
                    \o (IF fatalEntries # <<>>
                        THEN <<Header("error")>> \o EmitFatal(fatalEntries)
                        ELSE <<>>),
         queue |-> queue]

\* InvalidCodeLogger.logInvalidCode(reset)
logInvalidCode(queue, resetArg) ==
    LET nonFatalEntries == SelectSeq(queue, LAMBDA e : ~e.fatalError.defined)
        fatalEntries == SelectSeq(queue, LAMBDA e : e.fatalError.defined)
    IN  [logged |-> (IF nonFatalEntries # <<>>
                     THEN <<Header("warn")>>
                              \o [i \in 1..Len(nonFatalEntries) |-> Emit("warn", nonFatalEntries[i])]
                     ELSE <<>>)
                    \o (IF fatalEntries # <<>>
                        THEN <<Header("error")>> \o EmitFatal(fatalEntries)
                        ELSE <<>>),
         queue |-> IF resetArg THEN <<>> ELSE queue]

\* The calls of the logger: query holds the arguments and found the queue
\* when the call started.
InvalidCall(op, args, queue, emitted, error) ==
    /\ pc = "idle"
    /\ invalidCode' = queue
    /\ logged' = emitted
    /\ query' = args
    /\ found' = invalidCode
    /\ EndWith(op, error, <<>>, "none")
    /\ pre' = main
    /\ UNCHANGED <<main, mainID, scratch, scratchID, cfg, mode, opt, genDB, todo, filePaths,
                   pass, issued, issuedSince, hooks, facFile, facDB, testFile, testDB,
                   invalid, lintResults>>

AddInvalidCode(data) ==
    /\ Len(invalidCode) < MaxQueued
    /\ LET r == addInvalidCode(invalidCode, data)
       IN  InvalidCall("addInvalidCode", <<data>>, r.queue, <<>>, r.raised)

LogInvalidCode(resetArg) ==
    LET r == logInvalidCode(invalidCode, resetArg)
    IN  InvalidCall("logInvalidCode", <<resetArg>>, r.queue, r.logged, "none")

\* InvalidCodeLogger.resetLog
ResetLog ==
    /\ invalidCode # <<>>
    /\ InvalidCall("resetLog", <<>>, <<>>, <<>>, "none")

NextInvalid ==
    \/ \E data \in InvalidData : AddInvalidCode(data)
    \/ \E resetArg \in BOOLEAN : LogInvalidCode(resetArg)
    \/ ResetLog
    \/ Return

SpecInvalid == Init /\ [][NextInvalid]_vars


Flushed == pc = "done" /\ out.op = "logInvalidCode"
Outputs(l) == SelectSeq(l, LAMBDA m : m.what = "output")
Warnings(queue) == SelectSeq(queue, LAMBDA e : ~e.fatalError.defined)
Errors(queue) == SelectSeq(queue, LAMBDA e : e.fatalError.defined)

\* C32: logInvalidCode emits the output of every queued diagnostic exactly
\* once, those without a fatal error as warnings and before all those with
\* one, which are emitted as errors; with the default reset the queue is
\* empty afterwards, and a flush of an empty queue emits nothing.
C32_FlushOnceWarningsFirst ==
    Flushed =>
        LET E == Outputs(logged)
            W == Warnings(found)
            F == Errors(found)
        IN  /\ Len(E) = Len(found)
            /\ \A i \in 1..Len(W) : E[i].level = "warn" /\ E[i].output = W[i].output
            /\ \A i \in 1..Len(F) :
                   E[Len(W) + i].level = "error" /\ E[Len(W) + i].output = F[i].output
            /\ query[1] => invalidCode = <<>>
            /\ found = <<>> => logged = <<>>

\* A flush with the default reset of a queue whose first diagnostic has a
\* fatal error and whose second has none.
C32_FlushOfErrorThenWarning ==
    /\ Flushed /\ query[1]
    /\ Len(found) = 2 /\ found[1].fatalError.defined /\ ~found[2].fatalError.defined
    /\ invalidCode = <<>>

\* C33: a diagnostic added with a parserError that has neither a numeric
\* line nor a numeric column is stored as a fatal error that carries the
\* parser's error, and is built as an error, not as a warning.
C33_NonParserErrorIsFatal ==
    (/\ pc = "done" /\ out.op = "addInvalidCode" /\ out.raised = "none"
     /\ query[1].parserError.defined
     /\ query[1].parserError.line # "number" /\ query[1].parserError.column # "number") =>
        LET e == invalidCode[Len(invalidCode)]
        IN  /\ e.fatalError = query[1].parserError
            /\ e.output.label = "error:"


-----------------------------------------------------------------------------
(* Generation calls under every string that the calls accept as            *)
(* handleError: the calls test typeof handleError === 'string' only.       *)

AnyHandleErrors == HandleErrors \cup {"ignore"}

NextPolicy ==
    \/ \E f \in Files, h \in AnyHandleErrors, ok \in BOOLEAN, k \in 0..2 :
          GenerateFileDocData(f, h, ok, k)
    \/ \E f \in Files, h \in AnyHandleErrors, ok \in BOOLEAN, k \in 0..2 :
          GenerateTestDocData(f, h, ok, k)
    \/ Return

SpecPolicy == Init /\ [][NextPolicy]_vars

\* In the generation call that has ended the parser rejected the file, or
\* the doc factory threw on a node of the walk.
FailedInCall ==
    /\ FilterCall /\ PassesFilters
    /\ ~query[1] \/ query[2] \in 1..Len(AstOf(opt.filePath))

\* The doc factory of the call was reset with the undefined AST of a file
\* that the parser rejected.
UndefinedAst ==
    IF out.op = "generateFileDocData"
    THEN facFile = "none" /\ facDB # "none"
    ELSE testFile = "none" /\ testDB # "none"

\* C34: whatever string handleError is, a parser failure or a node-handler
\* failure in a generation call is queued as a diagnostic or reaches the
\* caller, and the call does not go on with an undefined AST.
C34_NoFailureSwallowed ==
    FailedInCall =>
        /\ out.raised # "none" \/ invalid > 0
        /\ ~UndefinedAst

\* What holds: under 'log' and 'throw' every failure is queued or thrown.
C34_LogAndThrowNeverSwallow ==
    (FailedInCall /\ opt.handleError \in HandleErrors) =>
        out.raised # "none" \/ invalid > 0


\* The regeneration call that has ended was for a file that the include and
\* exclude filters skip.
SkippedRegeneration ==
    /\ Regenerated
    /\ opt.filePath \notin cfg.included \/ opt.filePath \in cfg.excluded

\* C35: a regeneration call for a file that the filters skip raises no
\* error and leaves the records of the main store as they were.
C35_SkippedRegenerationIsSilent ==
    SkippedRegeneration => (out.raised = "none" /\ main = pre)

\* What holds: the call for a skipped file ends with an error, and the main
\* store has the records it had.
C35_SkippedRegenerationThrows ==
    SkippedRegeneration => (out.raised # "none" /\ main = pre)


\* C36: removeAndInsertDB with a store that holds no records removes no
\* record from the main store, inserts none and returns an empty list.
C36_EmptyStoreChangesNothing ==
    (pc = "done" /\ out.op = "removeAndInsertDB" /\ scratch = <<>>) =>
        (main = pre /\ out.paths = <<>>)

\* A main store with records of both files has taken an empty store.
C36_EmptyIntoTwoFiles ==
    /\ pc = "done" /\ out.op = "removeAndInsertDB" /\ scratch = <<>>
    /\ HasFile(pre, "A") /\ HasFile(pre, "B")
    /\ main = pre /\ out.paths = <<>>


\* The file paths whose records the regeneration call has replaced in the
\* main store: the distinct file paths of its scratch store.
Replaced == Range(Distinct(scratch))

\* C37: the list that a successful regeneration returns contains every file
\* path whose records the call has replaced in the main store, whatever the
\* dependent and resolve options are.
C37_ReturnedCoversReplaced ==
    (Regenerated /\ out.raised = "none") => Replaced \subseteq Range(out.paths)

\* What holds: the same unless both options are on.
C37_CoversUnlessResolvedDependents ==
    (Regenerated /\ out.raised = "none" /\ ~(opt.resolve /\ opt.dependent)) =>
        Replaced = Range(out.paths)


\* The sums of the expectedCount and of the actualCount values of the files
\* object of a coverage result.
RECURSIVE SumExpected(_, _)
SumExpected(files, fs) ==
    IF fs = {} THEN 0
    ELSE LET f == CHOOSE g \in fs : TRUE
         IN  files[f].expectedCount + SumExpected(files, fs \ {f})
RECURSIVE SumActual(_, _)
SumActual(files, fs) ==
    IF fs = {} THEN 0
    ELSE LET f == CHOOSE g \in fs : TRUE
         IN  files[f].actualCount + SumActual(files, fs \ {f})

Covered == pc = "done" /\ out.op = "getSourceCoverage"

====
